---------------------------- MODULE Spec2Model ----------------------------
(***************************************************************************)
(* A model of the codenames game server: the persisted Game record, the    *)
(* pure game logic of game-logic.ts, and the socket event handlers of      *)
(* socket-handlers.ts running as interleaved async functions over the      *)
(* key-value store of redis.ts.                                            *)
(*                                                                         *)
(* An async handler is cut at its awaits:                                  *)
(*   Dispatch the event arrives, playerInfo is looked up and the store     *)
(*            read of `await getGame` takes place; a handler that goes on  *)
(*            to return without saveGame ends here, with its error         *)
(*            message if it emits one;                                     *)
(*   Apply    the code between the return of getGame and the store write   *)
(*            of `await saveGame` runs (validation, in-place mutation,     *)
(*            JSON.stringify and set);                                     *)
(*   Finish   the code after saveGame runs (socket bookkeeping, emits,     *)
(*            broadcastGameState with its fetchSockets).                   *)
(* Nothing orders the steps of two handlers: the source takes no lock.     *)
(* Array indices are 0-based as in the source; sequences are 1-based, so   *)
(* a[i] of the source is a[i + 1] here.                                    *)
(***************************************************************************)
EXTENDS Integers, Sequences, FiniteSets, TLC

VARIABLES
    store,          \* redis: key -> <<>> (absent) or <<serialized Game>>
    socketPlayers,  \* socket id -> <<>> or <<[gameCode, playerId]>>
    roomSockets,    \* socket.io room membership: room code -> set of sockets
    handlers,       \* handler slot -> the async handler invocation running in it
    emitted,        \* the messages emitted by the last step
    outcome,        \* what the last step was: which handler, which event, how it ended
    changes         \* number of saveGame calls and disconnects so far

vars == <<store, socketPlayers, roomSockets, handlers, emitted, outcome, changes>>

----------------------------------------------------------------------------
(* Bounds of the model *)

\* Events that change the state of the server in one behaviour: a handler
\* that will call saveGame is let in, and a connection is closed, only while
\* fewer than MaxChanges have been.
MaxChanges == 2

Sockets == {"s1", "s2"}
\* The player identifier each connection sends in join_room (sessionStorage).
PlayerIdOf(s) == IF s = "s1" THEN "p1" ELSE "p2"
PlayerNameOf(s) == IF s = "s1" THEN "Ann" ELSE "Bob"
\* Handler invocations in flight at once.
Slots == {"h1", "h2"}
\* Room codes: ROOM1 is created by POST /api/games, ROOM2 never is.
RoomCode == "ROOM1"
Codes == {"ROOM1", "ROOM2"}
\* String.prototype.toUpperCase on the room codes clients send.
toUpperCase(code) ==
    CASE code = "room1" -> "ROOM1"
      [] code = "room2" -> "ROOM2"
      [] OTHER -> code
HostUuid == "host-uuid"

----------------------------------------------------------------------------
(* types/game.ts *)

BoardSizes == {"small", "standard", "large"}

BOARD_DIMENSIONS(size) ==
    CASE size = "small" -> 4
      [] size = "standard" -> 5
      [] size = "large" -> 6

TEAM_ORDER == <<"red", "blue", "green", "yellow">>
TeamIds == {"red", "blue", "green", "yellow"}

\* Array.prototype.slice(0, n) on a sequence.
Slice0(arr, n) == SubSeq(arr, 1, IF n < Len(arr) THEN n ELSE Len(arr))

Includes(arr, x) == \E i \in 1..Len(arr) : arr[i] = x

\* { ...base, ...patch } on records.
Merge(base, patch) ==
    [k \in (DOMAIN base) \cup (DOMAIN patch) |->
        IF k \in DOMAIN patch THEN patch[k] ELSE base[k]]

wordsPerTeamDefaults(boardSize, teamCount) ==
    CASE boardSize = "small" ->
            (CASE teamCount = 2 -> 6 [] teamCount = 3 -> 4 [] teamCount = 4 -> 3)
      [] boardSize = "standard" ->
            (CASE teamCount = 2 -> 8 [] teamCount = 3 -> 6 [] teamCount = 4 -> 5)
      [] boardSize = "large" ->
            (CASE teamCount = 2 -> 12 [] teamCount = 3 -> 9 [] teamCount = 4 -> 7)

getDefaultSettings(boardSize, teamCount) ==
    [boardSize |-> boardSize,
     teamCount |-> teamCount,
     wordsPerTeam |-> wordsPerTeamDefaults(boardSize, teamCount),
     assassinCount |-> IF boardSize = "large" THEN 2 ELSE 1,
     language |-> "en"]

\* The neutral cards the settings leave on the board.
getNeutralCount(settings) ==
    LET totalCards == BOARD_DIMENSIONS(settings.boardSize) * BOARD_DIMENSIONS(settings.boardSize)
        teamCards == settings.wordsPerTeam * settings.teamCount
        firstTeamBonus == 1
    IN totalCards - teamCards - firstTeamBonus - settings.assassinCount

----------------------------------------------------------------------------
(* JavaScript numbers as the Game record holds them: a finite number,      *)
(* Infinity, NaN, or (after JSON) null, or a property never assigned.      *)

JNum(n) == [t |-> "number", v |-> n]
JInfinity == [t |-> "Infinity", v |-> 0]
JNaN == [t |-> "NaN", v |-> 0]
JNull == [t |-> "null", v |-> 0]
JUndefined == [t |-> "undefined", v |-> 0]

\* x - 1 as the postfix decrement computes it (ToNumber(null) = 0).
JDec(x) ==
    CASE x.t = "number" -> JNum(x.v - 1)
      [] x.t = "null" -> JNum(0 - 1)
      [] x.t = "Infinity" -> JInfinity
      [] OTHER -> JNaN

\* x + 1 as the postfix increment computes it.
JInc(x) ==
    CASE x.t = "number" -> JNum(x.v + 1)
      [] x.t = "null" -> JNum(1)
      [] x.t = "Infinity" -> JInfinity
      [] OTHER -> JNaN

\* x < 0: the comparison with the fault of letting 0 pass.
JLessThanZero(x) ==
    CASE x.t = "number" -> x.v < 0
      [] OTHER -> FALSE

\* x <= 0
JLeqZero(x) ==
    CASE x.t = "number" -> x.v <= 0
      [] x.t = "null" -> TRUE
      [] OTHER -> FALSE

\* JSON.stringify of a number-valued property: Infinity and NaN become null.
JsonNumber(x) == IF x.t \in {"Infinity", "NaN"} THEN JNull ELSE x

----------------------------------------------------------------------------
(* game-logic.ts *)

RECURSIVE Repeat(_, _)
Repeat(x, n) == IF n <= 0 THEN <<>> ELSE <<x>> \o Repeat(x, n - 1)

Swap(arr, i, j) == [arr EXCEPT ![i + 1] = arr[j + 1], ![j + 1] = arr[i + 1]]

\* Math.floor(Math.random() * (i + 1)) of the shuffle, for the random stream
\* `seed`: stream 1 draws j = i every time, stream 0 draws j = 0.
RandomIndex(seed, i) == (seed * i) % (i + 1)

\* The loop of shuffleArray from index i down to 1.
RECURSIVE ShuffleFrom(_, _, _)
ShuffleFrom(arr, i, seed) ==
    IF i <= 0 THEN arr
    ELSE ShuffleFrom(Swap(arr, i, RandomIndex(seed, i)), i - 1, seed)

shuffleArray(arr, seed) == ShuffleFrom(arr, Len(arr) - 1, seed)

\* The team cards with the fault of giving the first team no extra card.
RECURSIVE TeamCardsNoBonus(_, _, _)
TeamCardsNoBonus(teams, index, wordsPerTeam) ==
    IF index >= Len(teams) THEN <<>>
    ELSE Repeat(teams[index + 1], wordsPerTeam)
            \o TeamCardsNoBonus(teams, index + 1, wordsPerTeam)

\* The team cards pushed by teams.forEach: the first team gets one more.
RECURSIVE TeamCards(_, _, _)
TeamCards(teams, index, wordsPerTeam) ==
    IF index >= Len(teams) THEN <<>>
    ELSE Repeat(teams[index + 1], wordsPerTeam + (IF index = 0 THEN 1 ELSE 0))
            \o TeamCards(teams, index + 1, wordsPerTeam)

generateKeyCard(settings, seed) ==
    LET totalCards == BOARD_DIMENSIONS(settings.boardSize) * BOARD_DIMENSIONS(settings.boardSize)
        teams == Slice0(TEAM_ORDER, settings.teamCount)
        fixed == TeamCards(teams, 0, settings.wordsPerTeam)
                    \o Repeat("assassin", settings.assassinCount)
        cardTypes == fixed \o Repeat("neutral", totalCards - Len(fixed))
    IN shuffleArray(cardTypes, seed)

\* The scores with the fault of giving the first team no extra card to find.
initializeScoresNoBonus(settings) ==
    LET teams == Slice0(TEAM_ORDER, settings.teamCount)
    IN [team \in TeamIds |->
            [found |-> 0,
             total |-> IF \E index \in 0..(Len(teams) - 1) : teams[index + 1] = team
                       THEN settings.wordsPerTeam
                       ELSE 0]]

initializeScores(settings) ==
    LET teams == Slice0(TEAM_ORDER, settings.teamCount)
    IN [team \in TeamIds |->
            [found |-> 0,
             total |-> IF \E index \in 0..(Len(teams) - 1) : teams[index + 1] = team
                       THEN settings.wordsPerTeam + (IF teams[1] = team THEN 1 ELSE 0)
                       ELSE 0]]

\* words.ts: n unique word labels; a word is named by its position.
getRandomWords(n) == [i \in 1..n |-> i]

createGame(hostId, code, settings, seed) ==
    LET base == getDefaultSettings(
                    IF "boardSize" \in DOMAIN settings THEN settings.boardSize ELSE "standard",
                    IF "teamCount" \in DOMAIN settings THEN settings.teamCount ELSE 2)
        fullSettings == Merge(base, settings)
        totalCards == BOARD_DIMENSIONS(fullSettings.boardSize) * BOARD_DIMENSIONS(fullSettings.boardSize)
    IN [code |-> code,
        hostId |-> hostId,
        status |-> "lobby",
        settings |-> fullSettings,
        words |-> getRandomWords(totalCards),
        keyCard |-> generateKeyCard(fullSettings, seed),
        revealed |-> [i \in 1..totalCards |-> FALSE],
        teams |-> Slice0(TEAM_ORDER, fullSettings.teamCount),
        currentTeamIndex |-> 0,
        currentClue |-> <<>>,
        guessesRemaining |-> JNum(0),
        guessesThisTurn |-> JUndefined,
        players |-> <<>>,
        scores |-> initializeScores(fullSettings),
        eliminatedTeams |-> <<>>,
        winner |-> "null",
        createdAt |-> 0]

\* { ...game, words, keyCard, revealed, ... }: the properties the literal
\* names are replaced, every other property of `game` is kept.
regenerateBoard(game, seed) ==
    LET totalCards == BOARD_DIMENSIONS(game.settings.boardSize) * BOARD_DIMENSIONS(game.settings.boardSize)
    IN [game EXCEPT !.words = getRandomWords(totalCards),
                    !.keyCard = generateKeyCard(game.settings, seed),
                    !.revealed = [i \in 1..totalCards |-> FALSE],
                    !.currentTeamIndex = 0,
                    !.currentClue = <<>>,
                    !.guessesRemaining = JNum(0),
                    !.scores = initializeScores(game.settings),
                    !.eliminatedTeams = <<>>,
                    !.winner = "null",
                    !.status = "lobby"]


\* findIndex by id: the 1-based position of the player, 0 when there is none.
FindPlayer(players, playerId) ==
    IF \E i \in 1..Len(players) : players[i].id = playerId
    THEN CHOOSE i \in 1..Len(players) :
            /\ players[i].id = playerId
            /\ \A j \in 1..(i - 1) : players[j].id # playerId
    ELSE 0

HasPlayer(game, team, role) ==
    \E i \in 1..Len(game.players) :
        game.players[i].team = team /\ game.players[i].role = role

getCurrentTeam(game) == game.teams[game.currentTeamIndex + 1]

validateGameStart(game) ==
    /\ game.status = "lobby"
    /\ \A i \in 1..Len(game.teams) : HasPlayer(game, game.teams[i], "spymaster")
    /\ \A i \in 1..Len(game.teams) : HasPlayer(game, game.teams[i], "operative")

canGiveClue(game, playerId) ==
    LET idx == FindPlayer(game.players, playerId)
    IN /\ game.status = "playing"
       /\ game.currentClue = <<>>
       /\ idx # 0
       /\ game.players[idx].role = "spymaster"
       /\ game.players[idx].team = getCurrentTeam(game)

canGuess(game, playerId) ==
    LET idx == FindPlayer(game.players, playerId)
    IN /\ game.status = "playing"
       /\ game.currentClue # <<>>
       /\ ~JLeqZero(game.guessesRemaining)
       /\ idx # 0
       /\ game.players[idx].role = "operative"
       /\ game.players[idx].team = getCurrentTeam(game)

NotEliminated(game) ==
    LET Keep(t) == ~Includes(game.eliminatedTeams, t)
    IN SelectSeq(game.teams, Keep)

checkWinCondition(game) ==
    LET Winning(i) ==
            /\ ~Includes(game.eliminatedTeams, game.teams[i])
            /\ game.scores[game.teams[i]].found >= game.scores[game.teams[i]].total
        remainingTeams == NotEliminated(game)
    IN IF \E i \in 1..Len(game.teams) : Winning(i)
       THEN game.teams[CHOOSE i \in 1..Len(game.teams) :
                            Winning(i) /\ \A j \in 1..(i - 1) : ~Winning(j)]
       ELSE IF Len(remainingTeams) = 1 THEN remainingTeams[1] ELSE "null"

----------------------------------------------------------------------------
(* redis.ts *)

\* `game:${code.toUpperCase()}`
getGameKey(code) ==
    CASE toUpperCase(code) = "ROOM1" -> "game:ROOM1"
      [] toUpperCase(code) = "ROOM2" -> "game:ROOM2"

\* The keys of the store.
Keys == {getGameKey(code) : code \in Codes}

\* JSON.stringify(game): the text stored under the key, as the value
\* JSON.parse gives back for it.
Stringify(game) ==
    [game EXCEPT !.guessesRemaining = JsonNumber(@),
                 !.guessesThisTurn = JsonNumber(@)]

\* The store after saveGame(game).
saveGame(st, game) == [st EXCEPT ![getGameKey(game.code)] = <<Stringify(game)>>]

\* getGame(code): <<>> for null, <<game>> for the parsed record.
getGame(st, code) == st[getGameKey(code)]

----------------------------------------------------------------------------
(* socket-handlers.ts: views *)

\* toClientState with the fault of copying the key card into revealedCards
\* unmasked.
toClientStateUnmasked(game) ==
    [code |-> game.code,
     hostId |-> game.hostId,
     status |-> game.status,
     settings |-> game.settings,
     words |-> game.words,
     revealed |-> game.revealed,
     revealedCards |-> game.keyCard,
     teams |-> game.teams,
     currentTeamIndex |-> game.currentTeamIndex,
     currentClue |-> game.currentClue,
     guessesRemaining |-> game.guessesRemaining,
     guessesThisTurn |-> game.guessesThisTurn,
     players |-> game.players,
     scores |-> game.scores,
     eliminatedTeams |-> game.eliminatedTeams,
     winner |-> game.winner]

toClientState(game) ==
    [code |-> game.code,
     hostId |-> game.hostId,
     status |-> game.status,
     settings |-> game.settings,
     words |-> game.words,
     revealed |-> game.revealed,
     revealedCards |->
        [i \in 1..Len(game.keyCard) |->
            IF i <= Len(game.revealed) /\ game.revealed[i]
            THEN game.keyCard[i] ELSE "null"],
     teams |-> game.teams,
     currentTeamIndex |-> game.currentTeamIndex,
     currentClue |-> game.currentClue,
     guessesRemaining |-> game.guessesRemaining,
     guessesThisTurn |-> game.guessesThisTurn,
     players |-> game.players,
     scores |-> game.scores,
     eliminatedTeams |-> game.eliminatedTeams,
     winner |-> game.winner]

toSpymasterState(game) == Merge(toClientState(game), [keyCard |-> game.keyCard])

getStateForPlayer(game, playerId) ==
    LET idx == FindPlayer(game.players, playerId)
    IN IF idx # 0 /\ game.players[idx].role = "spymaster"
       THEN toSpymasterState(game)
       ELSE toClientState(game)


----------------------------------------------------------------------------
(* socket-handlers.ts: what each handler does between the return of        *)
(* getGame and its saveGame.  `loaded` is what getGame returned, <<>> for  *)
(* null.  The result says whether saveGame was called (save), which error  *)
(* message was emitted to the socket ("" for none) and the handler's game  *)
(* object as it then is.                                                   *)

Return(loaded) == [save |-> FALSE, error |-> "", game |-> loaded]
EmitError(loaded, message) == [save |-> FALSE, error |-> message, game |-> loaded]
Save(game) == [save |-> TRUE, error |-> "", game |-> <<game>>]

\* The do-while loop of advanceToNextTeam.
RECURSIVE NextTeamIndex(_, _, _)
NextTeamIndex(game, index, attempts) ==
    LET next == (index + 1) % Len(game.teams)
    IN IF Includes(game.eliminatedTeams, game.teams[next + 1])
            /\ attempts + 1 < Len(game.teams)
       THEN NextTeamIndex(game, next, attempts + 1)
       ELSE next

\* advanceToNextTeam with the fault of handing the turn to the next team
\* even if it is eliminated.
advanceToNextTeamNoSkip(game) ==
    [game EXCEPT !.currentClue = <<>>,
                 !.guessesRemaining = JNum(0),
                 !.guessesThisTurn = JNum(0),
                 !.currentTeamIndex = (game.currentTeamIndex + 1) % Len(game.teams)]

advanceToNextTeam(game) ==
    [game EXCEPT !.currentClue = <<>>,
                 !.guessesRemaining = JNum(0),
                 !.guessesThisTurn = JNum(0),
                 !.currentTeamIndex = NextTeamIndex(game, game.currentTeamIndex, 0)]

\* join_room with the fault of entering a player that joins again as a new
\* player: its team and role are lost.
join_roomAsNewPlayer(loaded, playerId, playerName) ==
    IF loaded = <<>> THEN EmitError(loaded, "Game not found")
    ELSE LET game == loaded[1]
             idx == FindPlayer(game.players, playerId)
             player == [id |-> playerId,
                        name |-> playerName,
                        team |-> "null",
                        role |-> "null",
                        isHost |-> (Len(game.players) = 0)]
         IN IF idx = 0
            THEN Save([game EXCEPT !.players = Append(@, player)])
            ELSE Save([game EXCEPT !.players[idx] = player])

join_room(loaded, playerId, playerName) ==
    IF loaded = <<>> THEN EmitError(loaded, "Game not found")
    ELSE LET game == loaded[1]
             idx == FindPlayer(game.players, playerId)
         IN IF idx = 0
            THEN Save([game EXCEPT !.players =
                        Append(@, [id |-> playerId,
                                   name |-> playerName,
                                   team |-> "null",
                                   role |-> "null",
                                   isHost |-> (Len(game.players) = 0)])])
            ELSE Save([game EXCEPT !.players[idx].name = playerName])

RemoveAt(arr, idx) == SubSeq(arr, 1, idx - 1) \o SubSeq(arr, idx + 1, Len(arr))

\* leave_room with the fault of not assigning a new host.
leave_roomWithoutHandoff(loaded, playerId) ==
    IF loaded = <<>> THEN Return(loaded)
    ELSE LET game == loaded[1]
             playerIndex == FindPlayer(game.players, playerId)
         IN IF playerIndex = 0 THEN Return(loaded)
            ELSE Save([game EXCEPT !.players = RemoveAt(@, playerIndex)])

leave_room(loaded, playerId) ==
    IF loaded = <<>> THEN Return(loaded)
    ELSE LET game == loaded[1]
             playerIndex == FindPlayer(game.players, playerId)
             rest == RemoveAt(game.players, playerIndex)
         IN IF playerIndex = 0 THEN Return(loaded)
            ELSE Save([game EXCEPT !.players =
                        IF game.players[playerIndex].isHost /\ Len(rest) > 0
                        THEN [rest EXCEPT ![1].isHost = TRUE]
                        ELSE rest])

update_settings(loaded, playerId, patch) ==
    IF loaded = <<>> THEN Return(loaded)
    ELSE LET game == loaded[1]
             idx == FindPlayer(game.players, playerId)
         IN IF idx = 0 \/ ~game.players[idx].isHost
            THEN EmitError(loaded, "Only the host can change settings")
            ELSE IF game.status # "lobby"
            THEN EmitError(loaded, "Cannot change settings after game started")
            ELSE Save([game EXCEPT !.settings = Merge(@, patch)])

\* select_team with the fault of not looking for an existing spymaster.
select_teamUnchecked(loaded, playerId, team, role) ==
    IF loaded = <<>> THEN Return(loaded)
    ELSE LET game == loaded[1]
             idx == FindPlayer(game.players, playerId)
         IN IF idx = 0 THEN Return(loaded)
            ELSE IF role = "spectator"
            THEN Save([game EXCEPT !.players[idx].team = "null",
                                   !.players[idx].role = "spectator"])
            ELSE Save([game EXCEPT !.players[idx].team = team,
                                   !.players[idx].role = role])

select_team(loaded, playerId, team, role) ==
    IF loaded = <<>> THEN Return(loaded)
    ELSE LET game == loaded[1]
             idx == FindPlayer(game.players, playerId)
             existingSpymaster ==
                \E i \in 1..Len(game.players) :
                    /\ game.players[i].id # playerId
                    /\ game.players[i].team = team
                    /\ game.players[i].role = "spymaster"
         IN IF idx = 0 THEN Return(loaded)
            ELSE IF role = "spectator"
            THEN Save([game EXCEPT !.players[idx].team = "null",
                                   !.players[idx].role = "spectator"])
            ELSE IF role = "spymaster" /\ team # "null" /\ existingSpymaster
            THEN EmitError(loaded, "Spymaster role is already taken for " \o team \o " team")
            ELSE Save([game EXCEPT !.players[idx].team = team,
                                   !.players[idx].role = role])

start_game(loaded, playerId) ==
    IF loaded = <<>> THEN Return(loaded)
    ELSE LET game == loaded[1]
             idx == FindPlayer(game.players, playerId)
             activeTeams == Slice0(game.teams, game.settings.teamCount)
             Lacks(i) == ~HasPlayer(game, activeTeams[i], "spymaster")
         IN IF idx = 0 \/ ~game.players[idx].isHost
            THEN EmitError(loaded, "Only the host can start the game")
            ELSE IF game.status # "lobby"
            THEN EmitError(loaded, "Game already started")
            ELSE IF \E i \in 1..Len(activeTeams) : Lacks(i)
            THEN EmitError(loaded,
                    activeTeams[CHOOSE i \in 1..Len(activeTeams) :
                                    Lacks(i) /\ \A j \in 1..(i - 1) : ~Lacks(j)]
                        \o " team needs a spymaster")
            ELSE Save([game EXCEPT !.status = "playing"])

\* data.word.trim().toUpperCase() on the clue words of the model.
TrimUpper(word) ==
    CASE word = "animal" -> "ANIMAL"
      [] word = " " -> ""
      [] OTHER -> word

\* give_clue with the fault of validating the clue after it has been stored:
\* an invalid clue is saved and then answered with the error.
give_clueValidatedLate(loaded, playerId, word, count) ==
    IF loaded = <<>> THEN Return(loaded)
    ELSE LET game == loaded[1]
             idx == FindPlayer(game.players, playerId)
             clueWord == TrimUpper(word)
             given == [game EXCEPT
                        !.currentClue = <<[word |-> clueWord, count |-> count]>>,
                        !.guessesRemaining = IF count = 0 THEN JInfinity ELSE JNum(count + 1),
                        !.guessesThisTurn = JNum(0)]
         IN IF game.status # "playing" THEN Return(loaded)
            ELSE IF idx = 0 THEN Return(loaded)
            ELSE IF game.players[idx].team # getCurrentTeam(game)
            THEN EmitError(loaded, "It's not your team's turn")
            ELSE IF game.players[idx].role # "spymaster"
            THEN EmitError(loaded, "Only the spymaster can give clues")
            ELSE IF game.currentClue # <<>>
            THEN EmitError(loaded, "A clue has already been given this turn")
            ELSE IF clueWord = "" \/ count < 0
            THEN [save |-> TRUE, error |-> "Invalid clue", game |-> <<given>>]
            ELSE Save(given)

give_clue(loaded, playerId, word, count) ==
    IF loaded = <<>> THEN Return(loaded)
    ELSE LET game == loaded[1]
             idx == FindPlayer(game.players, playerId)
             clueWord == TrimUpper(word)
         IN IF game.status # "playing" THEN Return(loaded)
            ELSE IF idx = 0 THEN Return(loaded)
            ELSE IF game.players[idx].team # getCurrentTeam(game)
            THEN EmitError(loaded, "It's not your team's turn")
            ELSE IF game.players[idx].role # "spymaster"
            THEN EmitError(loaded, "Only the spymaster can give clues")
            ELSE IF game.currentClue # <<>>
            THEN EmitError(loaded, "A clue has already been given this turn")
            ELSE IF clueWord = "" \/ count < 0
            THEN EmitError(loaded, "Invalid clue")
            ELSE Save([game EXCEPT
                        !.currentClue = <<[word |-> clueWord, count |-> count]>>,
                        !.guessesRemaining = IF count = 0 THEN JInfinity ELSE JNum(count + 1),
                        !.guessesThisTurn = JNum(0)])

\* ResolveGuess with the fault of naming the winner of the assassin branch
\* without finishing the game.
ResolveGuessWinnerOnly(game, currentTeam, cardType) ==
    IF cardType = "assassin"
    THEN LET g1 == [game EXCEPT !.eliminatedTeams = Append(@, currentTeam)]
             remainingTeams == NotEliminated(g1)
         IN IF Len(remainingTeams) = 1
            THEN [g1 EXCEPT !.winner = remainingTeams[1]]
            ELSE advanceToNextTeam(g1)
    ELSE IF cardType = currentTeam
    THEN LET g1 == [game EXCEPT !.scores[currentTeam].found = @ + 1]
         IN IF g1.scores[currentTeam].found >= g1.scores[currentTeam].total
            THEN [g1 EXCEPT !.winner = currentTeam, !.status = "finished"]
            ELSE IF JLeqZero(g1.guessesRemaining)
            THEN advanceToNextTeam(g1)
            ELSE g1
    ELSE IF cardType = "neutral"
    THEN advanceToNextTeam(game)
    ELSE LET otherTeam == cardType
             g1 == [game EXCEPT !.scores[otherTeam].found = @ + 1]
         IN IF g1.scores[otherTeam].found >= g1.scores[otherTeam].total
            THEN advanceToNextTeam([g1 EXCEPT !.winner = otherTeam, !.status = "finished"])
            ELSE advanceToNextTeam(g1)

\* ResolveGuess with the fault of ending the turn on a neutral card only
\* when no guess is left.
ResolveGuessNeutralCounted(game, currentTeam, cardType) ==
    IF cardType = "assassin"
    THEN LET g1 == [game EXCEPT !.eliminatedTeams = Append(@, currentTeam)]
             remainingTeams == NotEliminated(g1)
         IN IF Len(remainingTeams) = 1
            THEN [g1 EXCEPT !.winner = remainingTeams[1], !.status = "finished"]
            ELSE advanceToNextTeam(g1)
    ELSE IF cardType = currentTeam
    THEN LET g1 == [game EXCEPT !.scores[currentTeam].found = @ + 1]
         IN IF g1.scores[currentTeam].found >= g1.scores[currentTeam].total
            THEN [g1 EXCEPT !.winner = currentTeam, !.status = "finished"]
            ELSE IF JLeqZero(g1.guessesRemaining)
            THEN advanceToNextTeam(g1)
            ELSE g1
    ELSE IF cardType = "neutral"
    THEN IF JLeqZero(game.guessesRemaining) THEN advanceToNextTeam(game) ELSE game
    ELSE LET otherTeam == cardType
             g1 == [game EXCEPT !.scores[otherTeam].found = @ + 1]
         IN IF g1.scores[otherTeam].found >= g1.scores[otherTeam].total
            THEN advanceToNextTeam([g1 EXCEPT !.winner = otherTeam, !.status = "finished"])
            ELSE advanceToNextTeam(g1)

\* ResolveGuess with the fault of crediting another team's word to the
\* guessing team.
ResolveGuessCreditsGuesser(game, currentTeam, cardType) ==
    IF cardType = "assassin"
    THEN LET g1 == [game EXCEPT !.eliminatedTeams = Append(@, currentTeam)]
             remainingTeams == NotEliminated(g1)
         IN IF Len(remainingTeams) = 1
            THEN [g1 EXCEPT !.winner = remainingTeams[1], !.status = "finished"]
            ELSE advanceToNextTeam(g1)
    ELSE IF cardType = currentTeam
    THEN LET g1 == [game EXCEPT !.scores[currentTeam].found = @ + 1]
         IN IF g1.scores[currentTeam].found >= g1.scores[currentTeam].total
            THEN [g1 EXCEPT !.winner = currentTeam, !.status = "finished"]
            ELSE IF JLeqZero(g1.guessesRemaining)
            THEN advanceToNextTeam(g1)
            ELSE g1
    ELSE IF cardType = "neutral"
    THEN advanceToNextTeam(game)
    ELSE LET g1 == [game EXCEPT !.scores[currentTeam].found = @ + 1]
         IN IF g1.scores[currentTeam].found >= g1.scores[currentTeam].total
            THEN advanceToNextTeam([g1 EXCEPT !.winner = currentTeam, !.status = "finished"])
            ELSE advanceToNextTeam(g1)

\* ResolveGuess with the fault of counting a word of the guessing team
\* down instead of up.
ResolveGuessCountsDown(game, currentTeam, cardType) ==
    IF cardType = "assassin"
    THEN LET g1 == [game EXCEPT !.eliminatedTeams = Append(@, currentTeam)]
             remainingTeams == NotEliminated(g1)
         IN IF Len(remainingTeams) = 1
            THEN [g1 EXCEPT !.winner = remainingTeams[1], !.status = "finished"]
            ELSE advanceToNextTeam(g1)
    ELSE IF cardType = currentTeam
    THEN LET g1 == [game EXCEPT !.scores[currentTeam].found = @ - 1]
         IN IF g1.scores[currentTeam].found >= g1.scores[currentTeam].total
            THEN [g1 EXCEPT !.winner = currentTeam, !.status = "finished"]
            ELSE IF JLeqZero(g1.guessesRemaining)
            THEN advanceToNextTeam(g1)
            ELSE g1
    ELSE IF cardType = "neutral"
    THEN advanceToNextTeam(game)
    ELSE LET otherTeam == cardType
             g1 == [game EXCEPT !.scores[otherTeam].found = @ + 1]
         IN IF g1.scores[otherTeam].found >= g1.scores[otherTeam].total
            THEN advanceToNextTeam([g1 EXCEPT !.winner = otherTeam, !.status = "finished"])
            ELSE advanceToNextTeam(g1)

\* ResolveGuess with the fault of ending the turn on the assassin without
\* eliminating the team.
ResolveGuessAssassinEndsTurn(game, currentTeam, cardType) ==
    IF cardType = "assassin"
    THEN advanceToNextTeam(game)
    ELSE IF cardType = currentTeam
    THEN LET g1 == [game EXCEPT !.scores[currentTeam].found = @ + 1]
         IN IF g1.scores[currentTeam].found >= g1.scores[currentTeam].total
            THEN [g1 EXCEPT !.winner = currentTeam, !.status = "finished"]
            ELSE IF JLeqZero(g1.guessesRemaining)
            THEN advanceToNextTeam(g1)
            ELSE g1
    ELSE IF cardType = "neutral"
    THEN advanceToNextTeam(game)
    ELSE LET otherTeam == cardType
             g1 == [game EXCEPT !.scores[otherTeam].found = @ + 1]
         IN IF g1.scores[otherTeam].found >= g1.scores[otherTeam].total
            THEN advanceToNextTeam([g1 EXCEPT !.winner = otherTeam, !.status = "finished"])
            ELSE advanceToNextTeam(g1)

\* The branches of guess_word on the type of the revealed card, applied to
\* the game with the card revealed and the guess counted.
ResolveGuess(game, currentTeam, cardType) ==
    IF cardType = "assassin"
    THEN LET g1 == [game EXCEPT !.eliminatedTeams = Append(@, currentTeam)]
             remainingTeams == NotEliminated(g1)
         IN IF Len(remainingTeams) = 1
            THEN [g1 EXCEPT !.winner = remainingTeams[1], !.status = "finished"]
            ELSE advanceToNextTeam(g1)
    ELSE IF cardType = currentTeam
    THEN LET g1 == [game EXCEPT !.scores[currentTeam].found = @ + 1]
         IN IF g1.scores[currentTeam].found >= g1.scores[currentTeam].total
            THEN [g1 EXCEPT !.winner = currentTeam, !.status = "finished"]
            ELSE IF JLeqZero(g1.guessesRemaining)
            THEN advanceToNextTeam(g1)
            ELSE g1
    ELSE IF cardType = "neutral"
    THEN advanceToNextTeam(game)
    ELSE LET otherTeam == cardType
             g1 == [game EXCEPT !.scores[otherTeam].found = @ + 1]
         IN IF g1.scores[otherTeam].found >= g1.scores[otherTeam].total
            THEN advanceToNextTeam([g1 EXCEPT !.winner = otherTeam, !.status = "finished"])
            ELSE advanceToNextTeam(g1)

\* guess_word with the fault of revealing the whole row of four cards that
\* the guessed card lies in.
guess_wordRevealingRow(loaded, playerId, wordIndex) ==
    IF loaded = <<>> THEN Return(loaded)
    ELSE LET game == loaded[1]
             idx == FindPlayer(game.players, playerId)
             currentTeam == getCurrentTeam(game)
             row == wordIndex \div 4
         IN IF game.status # "playing" THEN Return(loaded)
            ELSE IF idx = 0 THEN Return(loaded)
            ELSE IF game.players[idx].team # currentTeam
            THEN EmitError(loaded, "It's not your team's turn")
            ELSE IF game.players[idx].role # "operative"
            THEN EmitError(loaded, "Only operatives can guess")
            ELSE IF game.currentClue = <<>>
            THEN EmitError(loaded, "Wait for the spymaster to give a clue")
            ELSE IF wordIndex < 0 \/ wordIndex >= Len(game.words)
            THEN EmitError(loaded, "Invalid word index")
            ELSE IF game.revealed[wordIndex + 1]
            THEN EmitError(loaded, "This card has already been revealed")
            ELSE Save(ResolveGuess(
                        [game EXCEPT !.revealed =
                                        [i \in DOMAIN @ |->
                                            IF (i - 1) \div 4 = row THEN TRUE ELSE @[i]],
                                     !.guessesRemaining = JDec(@),
                                     !.guessesThisTurn = JInc(@)],
                        currentTeam,
                        game.keyCard[wordIndex + 1]))

guess_word(loaded, playerId, wordIndex) ==
    IF loaded = <<>> THEN Return(loaded)
    ELSE LET game == loaded[1]
             idx == FindPlayer(game.players, playerId)
             currentTeam == getCurrentTeam(game)
         IN IF game.status # "playing" THEN Return(loaded)
            ELSE IF idx = 0 THEN Return(loaded)
            ELSE IF game.players[idx].team # currentTeam
            THEN EmitError(loaded, "It's not your team's turn")
            ELSE IF game.players[idx].role # "operative"
            THEN EmitError(loaded, "Only operatives can guess")
            ELSE IF game.currentClue = <<>>
            THEN EmitError(loaded, "Wait for the spymaster to give a clue")
            ELSE IF wordIndex < 0 \/ wordIndex >= Len(game.words)
            THEN EmitError(loaded, "Invalid word index")
            ELSE IF game.revealed[wordIndex + 1]
            THEN EmitError(loaded, "This card has already been revealed")
            ELSE Save(ResolveGuess(
                        [game EXCEPT !.revealed[wordIndex + 1] = TRUE,
                                     !.guessesRemaining = JDec(@),
                                     !.guessesThisTurn = JInc(@)],
                        currentTeam,
                        game.keyCard[wordIndex + 1]))

end_turn(loaded, playerId) ==
    IF loaded = <<>> THEN Return(loaded)
    ELSE LET game == loaded[1]
             idx == FindPlayer(game.players, playerId)
         IN IF game.status # "playing" THEN Return(loaded)
            ELSE IF idx = 0 THEN Return(loaded)
            ELSE IF game.players[idx].team # getCurrentTeam(game)
            THEN EmitError(loaded, "It's not your team's turn")
            ELSE Save(advanceToNextTeam(game))


----------------------------------------------------------------------------
(* The inputs of the model *)

\* POST /api/games: the settings of the request body and the random stream
\* of the shuffle.
CreateSettings == {[boardSize |-> "small", wordsPerTeam |-> 1]}
ShuffleSeeds == {1}
\* join_room
JoinCodes == {"room1", "ROOM2"}
\* update_settings
SettingsPatches == {[teamCount |-> 3]}
\* select_team: <<team, role>>
SelectChoices ==
    {<<"red", "spymaster">>, <<"red", "operative">>,
     <<"blue", "spymaster">>, <<"blue", "operative">>,
     <<"null", "spectator">>}
\* give_clue: <<word, count>>; 0 is the unlimited clue, " " trims to the
\* empty word.
ClueChoices == {<<"animal", 1>>, <<"animal", 0>>, <<" ", 1>>}
\* guess_word: -1 is out of range; in the unshuffled key card of
\* CreateSettings 0 and 1 are red, 2 is blue, 3 the assassin and 4 neutral.
WordIndices == {0 - 1, 0, 1, 2, 3, 4}

NoData ==
    [gameCode |-> "none", playerId |-> "none", playerName |-> "none",
     settings |-> <<>>, team |-> "null", role |-> "null",
     word |-> "", count |-> 0, wordIndex |-> 0]

Idle ==
    [pc |-> "idle", socket |-> "none", ev |-> "none", data |-> NoData,
     playerId |-> "none", code |-> "none", game |-> <<>>]

NoOutcome ==
    [step |-> "none", socket |-> "none", ev |-> "none", result |-> "none"]

----------------------------------------------------------------------------
(* Messages *)

ErrorMsg(s, message) == [to |-> s, ev |-> "error", body |-> [message |-> message]]

\* socket.emit('game_state', getStateForPlayer(game, playerId)); the message
\* also records the game object and the player it was projected for.
GameStateMsg(s, game, playerId) ==
    [to |-> s, ev |-> "game_state", body |-> getStateForPlayer(game, playerId),
     playerId |-> playerId, game |-> game]

SocketSeq == <<"s1", "s2">>

\* The sockets of a room, in the order fetchSockets lists them.
SocketsIn(rooms, code) ==
    LET InRoom(s) == code \in DOMAIN rooms /\ s \in rooms[code]
    IN SelectSeq(SocketSeq, InRoom)

\* socket.to(code).emit(ev, body): every socket of the room but the sender.
EmitToOthers(rooms, code, sender, ev, body) ==
    LET NotSender(s) == s # sender
        others == SelectSeq(SocketsIn(rooms, code), NotSender)
    IN [i \in 1..Len(others) |-> [to |-> others[i], ev |-> ev, body |-> body]]

\* io.to(code).emit(ev, body)
EmitToRoom(rooms, code, ev, body) ==
    LET all == SocketsIn(rooms, code)
    IN [i \in 1..Len(all) |-> [to |-> all[i], ev |-> ev, body |-> body]]

broadcastGameState(rooms, players, game) ==
    LET HasInfo(s) == players[s] # <<>>
        known == SelectSeq(SocketsIn(rooms, game.code), HasInfo)
    IN [i \in 1..Len(known) |->
            GameStateMsg(known[i], game, players[known[i]][1].playerId)]

----------------------------------------------------------------------------
(* The state machine *)

\* The slot a new handler invocation takes: the first idle one.
FreeSlot(h) ==
    /\ handlers[h].pc = "idle"
    /\ h = "h1" \/ handlers["h1"].pc # "idle"

\* The handler's code from the return of getGame to its saveGame.
Handle(ev, loaded, playerId, data) ==
    CASE ev = "join_room" -> join_room(loaded, playerId, data.playerName)
      [] ev = "leave_room" -> leave_room(loaded, playerId)
      [] ev = "update_settings" -> update_settings(loaded, playerId, data.settings)
      [] ev = "select_team" -> select_team(loaded, playerId, data.team, data.role)
      [] ev = "start_game" -> start_game(loaded, playerId)
      [] ev = "give_clue" -> give_clue(loaded, playerId, data.word, data.count)
      [] ev = "guess_word" -> guess_word(loaded, playerId, data.wordIndex)
      [] ev = "end_turn" -> end_turn(loaded, playerId)

\* socket.leave(gameCode); socketRooms.delete; socketPlayers.delete
LeaveSocketRoom(rooms, code, s) ==
    [c \in DOMAIN rooms |-> IF c = code THEN rooms[c] \ {s} ELSE rooms[c]]

\* The bound of the exploration: the changes made and the saves the
\* handlers in flight are about to make stay below MaxChanges.
ChangesLeft ==
    changes + Cardinality({o \in Slots : handlers[o].pc = "loaded"}) < MaxChanges

\* The handler is invoked for event `ev` of socket s.  join_room takes the
\* room and the player from its data, every other handler from
\* socketPlayers, and returns at once when the socket has no entry there.
\* Otherwise the handler calls getGame (the store is read).  A handler that
\* then returns without calling saveGame touches nothing shared after the
\* read but the socket's own messages and, in leave_room, its own entries,
\* so its return is taken in the same step; a handler that will call
\* saveGame stays in flight with the game object it loaded.
Dispatch(h, s, ev, data) ==
    LET info == IF ev = "join_room"
                THEN <<[gameCode |-> toUpperCase(data.gameCode),
                        playerId |-> data.playerId]>>
                ELSE socketPlayers[s]
        code == info[1].gameCode
        loaded == getGame(store, code)
        r == Handle(ev, loaded, info[1].playerId, data)
    IN /\ FreeSlot(h)
       /\ IF info = <<>>
          THEN /\ emitted' = <<>>
               /\ outcome' = [step |-> "receive", socket |-> s, ev |-> ev,
                              result |-> "rejected"]
               /\ UNCHANGED <<handlers, socketPlayers, roomSockets>>
          ELSE IF ~r.save
          THEN /\ emitted' = IF r.error = "" THEN <<>> ELSE <<ErrorMsg(s, r.error)>>
               /\ outcome' = [step |-> "receive", socket |-> s, ev |-> ev,
                              result |-> "rejected"]
               /\ IF ev = "leave_room"
                  THEN /\ roomSockets' = LeaveSocketRoom(roomSockets, code, s)
                       /\ socketPlayers' = [socketPlayers EXCEPT ![s] = <<>>]
                  ELSE UNCHANGED <<socketPlayers, roomSockets>>
               /\ UNCHANGED handlers
          ELSE /\ ChangesLeft
               /\ handlers' = [handlers EXCEPT ![h] =
                                [pc |-> "loaded", socket |-> s, ev |-> ev, data |-> data,
                                 playerId |-> info[1].playerId,
                                 code |-> code,
                                 game |-> loaded]]
               /\ emitted' = <<>>
               /\ outcome' = [step |-> "receive", socket |-> s, ev |-> ev,
                              result |-> "pending"]
               /\ UNCHANGED <<socketPlayers, roomSockets>>
       /\ UNCHANGED <<store, changes>>

JoinRoom(h, s, code) ==
    Dispatch(h, s, "join_room",
             [NoData EXCEPT !.gameCode = code, !.playerId = PlayerIdOf(s),
                            !.playerName = PlayerNameOf(s)])

LeaveRoom(h, s) == Dispatch(h, s, "leave_room", NoData)

UpdateSettings(h, s, patch) ==
    Dispatch(h, s, "update_settings", [NoData EXCEPT !.settings = patch])

SelectTeam(h, s, team, role) ==
    Dispatch(h, s, "select_team", [NoData EXCEPT !.team = team, !.role = role])

StartGame(h, s) == Dispatch(h, s, "start_game", NoData)

GiveClue(h, s, word, count) ==
    Dispatch(h, s, "give_clue", [NoData EXCEPT !.word = word, !.count = count])

GuessWord(h, s, wordIndex) ==
    Dispatch(h, s, "guess_word", [NoData EXCEPT !.wordIndex = wordIndex])

EndTurn(h, s) == Dispatch(h, s, "end_turn", NoData)

\* getGame has returned to a handler in flight: it validates and mutates
\* the game object it loaded and calls saveGame (the store is written).
Apply(h) ==
    LET hd == handlers[h]
        r == Handle(hd.ev, hd.game, hd.playerId, hd.data)
    IN /\ hd.pc = "loaded"
       /\ changes' = changes + 1
       /\ store' = IF r.save THEN saveGame(store, r.game[1]) ELSE store
       /\ handlers' = [handlers EXCEPT ![h].pc = "saved", ![h].game = r.game]
       /\ emitted' = IF r.error = "" THEN <<>> ELSE <<ErrorMsg(hd.socket, r.error)>>
       /\ outcome' = [step |-> "apply", socket |-> hd.socket, ev |-> hd.ev,
                      result |-> IF r.save /\ r.error = "" THEN "accepted" ELSE "rejected"]
       /\ UNCHANGED <<socketPlayers, roomSockets>>

\* saveGame has returned: the rest of the handler runs, the fetchSockets of
\* broadcastGameState included.
Finish(h) ==
    LET hd == handlers[h]
        game == hd.game[1]
        joined == [roomSockets EXCEPT ![hd.code] = @ \cup {hd.socket}]
    IN /\ hd.pc = "saved"
       /\ handlers' = [handlers EXCEPT ![h] = Idle]
       /\ outcome' = [step |-> "finish", socket |-> hd.socket, ev |-> hd.ev,
                      result |-> "done"]
       /\ CASE hd.ev = "join_room" ->
                /\ roomSockets' = joined
                /\ socketPlayers' = [socketPlayers EXCEPT ![hd.socket] =
                                        <<[gameCode |-> hd.code, playerId |-> hd.playerId]>>]
                /\ emitted' = EmitToOthers(joined, hd.code, hd.socket, "player_joined",
                                [player |-> game.players[FindPlayer(game.players, hd.playerId)]])
                              \o <<GameStateMsg(hd.socket, game, hd.playerId)>>
            [] hd.ev = "leave_room" ->
                /\ emitted' = EmitToOthers(roomSockets, hd.code, hd.socket, "player_left",
                                [playerId |-> hd.playerId,
                                 playerName |-> PlayerNameOf(hd.socket)])
                              \o broadcastGameState(roomSockets, socketPlayers, game)
                /\ roomSockets' = LeaveSocketRoom(roomSockets, hd.code, hd.socket)
                /\ socketPlayers' = [socketPlayers EXCEPT ![hd.socket] = <<>>]
            [] hd.ev = "update_settings" ->
                /\ emitted' = EmitToRoom(roomSockets, hd.code, "settings_updated",
                                         [settings |-> game.settings])
                /\ UNCHANGED <<socketPlayers, roomSockets>>
            [] OTHER ->
                /\ emitted' = broadcastGameState(roomSockets, socketPlayers, game)
                /\ UNCHANGED <<socketPlayers, roomSockets>>
       /\ UNCHANGED <<store, changes>>

\* The connection of socket s closes (socket.io takes it out of its rooms)
\* and the disconnect handler forgets its player; the player stays in the
\* roster.  The name s then stands for the next connection of that client.
Disconnect(s) ==
    /\ socketPlayers[s] # <<>> \/ \E code \in Codes : s \in roomSockets[code]
    /\ ChangesLeft
    /\ changes' = changes + 1
    /\ roomSockets' = [code \in Codes |-> roomSockets[code] \ {s}]
    /\ socketPlayers' = [socketPlayers EXCEPT ![s] = <<>>]
    /\ emitted' = <<>>
    /\ outcome' = [step |-> "disconnect", socket |-> s, ev |-> "disconnect",
                   result |-> "done"]
    /\ UNCHANGED <<store, handlers>>

EventNames ==
    {"join_room", "leave_room", "update_settings", "select_team", "start_game",
     "give_clue", "guess_word", "end_turn"}

\* The message of the handler's catch block; leave_room only logs.
CatchMessage(ev) ==
    CASE ev = "join_room" -> "Failed to join game"
      [] ev = "leave_room" -> ""
      [] ev = "update_settings" -> "Failed to update settings"
      [] ev = "select_team" -> "Failed to select team"
      [] ev = "start_game" -> "Failed to start game"
      [] ev = "give_clue" -> "Failed to give clue"
      [] ev = "guess_word" -> "Failed to process guess"
      [] ev = "end_turn" -> "Failed to end turn"

\* The catch block of the handler of `ev` on socket s, and in leave_room the
\* lines after it, which take the socket out of the room.
Caught(s, ev, code) ==
    /\ emitted' = IF CatchMessage(ev) = "" THEN <<>> ELSE <<ErrorMsg(s, CatchMessage(ev))>>
    /\ outcome' = [step |-> "catch", socket |-> s, ev |-> ev, result |-> "failed"]
    /\ IF ev = "leave_room"
       THEN /\ roomSockets' = LeaveSocketRoom(roomSockets, code, s)
            /\ socketPlayers' = [socketPlayers EXCEPT ![s] = <<>>]
       ELSE UNCHANGED <<socketPlayers, roomSockets>>

\* The handler is invoked for event `ev` of socket s and its getGame call
\* rejects: nothing was read, the catch block runs.  A failure counts as a
\* change of the exploration's bound.
GetGameFails(h, s, ev) ==
    /\ FreeSlot(h)
    /\ ev # "join_room"
    /\ socketPlayers[s] # <<>>
    /\ ChangesLeft
    /\ changes' = changes + 1
    /\ Caught(s, ev, socketPlayers[s][1].gameCode)
    /\ UNCHANGED <<store, handlers>>

\* The saveGame call of a handler in flight rejects: nothing is written, the
\* catch block runs and the handler ends.
SaveGameFails(h) ==
    /\ handlers[h].pc = "loaded"
    /\ Caught(handlers[h].socket, handlers[h].ev, handlers[h].code)
    /\ handlers' = [handlers EXCEPT ![h] = Idle]
    /\ changes' = changes + 1
    /\ UNCHANGED store

\* The server after POST /api/games has created and saved the room.
Created(settings, seed) ==
    [store |-> [key \in Keys |->
                    IF key = getGameKey(RoomCode)
                    THEN <<Stringify(createGame(HostUuid, RoomCode, settings, seed))>>
                    ELSE <<>>],
     socketPlayers |-> [s \in Sockets |-> <<>>],
     roomSockets |-> [code \in Codes |-> {}]]

\* The server after one more event has been handled from start to end with
\* no other handler in flight: the three steps Dispatch, Apply and Finish of
\* an accepted event.
Handled(sv, e) ==
    LET info == IF e.ev = "join_room"
                THEN <<[gameCode |-> toUpperCase(e.data.gameCode),
                        playerId |-> e.data.playerId]>>
                ELSE sv.socketPlayers[e.socket]
        r == Handle(e.ev, getGame(sv.store, info[1].gameCode), info[1].playerId, e.data)
    IN IF info = <<>> \/ ~r.save THEN sv
       ELSE [store |-> saveGame(sv.store, r.game[1]),
             socketPlayers |->
                IF e.ev = "join_room"
                THEN [sv.socketPlayers EXCEPT ![e.socket] = info]
                ELSE IF e.ev = "leave_room"
                THEN [sv.socketPlayers EXCEPT ![e.socket] = <<>>]
                ELSE sv.socketPlayers,
             roomSockets |->
                IF e.ev = "join_room"
                THEN [sv.roomSockets EXCEPT ![info[1].gameCode] = @ \cup {e.socket}]
                ELSE IF e.ev = "leave_room"
                THEN LeaveSocketRoom(sv.roomSockets, info[1].gameCode, e.socket)
                ELSE sv.roomSockets]

RECURSIVE HandledAll(_, _, _)
HandledAll(sv, script, n) ==
    IF n = 0 THEN sv ELSE Handled(HandledAll(sv, script, n - 1), script[n])

Event(s, ev, data) == [socket |-> s, ev |-> ev, data |-> data]

\* The opening of a game of two players: both join, each takes the
\* spymaster of a team, the host starts the game, the red spymaster gives a
\* clue and then takes the operative of its team.
Opening ==
    <<Event("s1", "join_room", [NoData EXCEPT !.gameCode = RoomCode, !.playerId = PlayerIdOf("s1"),
                                              !.playerName = PlayerNameOf("s1")]),
      Event("s2", "join_room", [NoData EXCEPT !.gameCode = RoomCode, !.playerId = PlayerIdOf("s2"),
                                              !.playerName = PlayerNameOf("s2")]),
      Event("s1", "select_team", [NoData EXCEPT !.team = "red", !.role = "spymaster"]),
      Event("s2", "select_team", [NoData EXCEPT !.team = "blue", !.role = "spymaster"]),
      Event("s1", "start_game", NoData),
      Event("s1", "give_clue", [NoData EXCEPT !.word = "animal", !.count = 1]),
      Event("s1", "select_team", [NoData EXCEPT !.team = "red", !.role = "operative"])>>

\* A behaviour starts when the room has been created and the first n events
\* of Opening have been handled, one after the other, for any n: every
\* initial state is a state the server reaches from the creation of the
\* room.  From there on every event of the model may arrive, and handlers
\* interleave at their awaits.
Init ==
    /\ \E settings \in CreateSettings, seed \in ShuffleSeeds, n \in 0..Len(Opening) :
          LET sv == HandledAll(Created(settings, seed), Opening, n)
          IN /\ store = sv.store
             /\ socketPlayers = sv.socketPlayers
             /\ roomSockets = sv.roomSockets
    /\ handlers = [h \in Slots |-> Idle]
    /\ emitted = <<>>
    /\ outcome = NoOutcome
    /\ changes = 0

Next ==
    \/ \E h \in Slots, s \in Sockets, code \in JoinCodes : JoinRoom(h, s, code)
    \/ \E h \in Slots, s \in Sockets : LeaveRoom(h, s)
    \/ \E h \in Slots, s \in Sockets, patch \in SettingsPatches : UpdateSettings(h, s, patch)
    \/ \E h \in Slots, s \in Sockets, choice \in SelectChoices :
            SelectTeam(h, s, choice[1], choice[2])
    \/ \E h \in Slots, s \in Sockets : StartGame(h, s)
    \/ \E h \in Slots, s \in Sockets, clue \in ClueChoices :
            GiveClue(h, s, clue[1], clue[2])
    \/ \E h \in Slots, s \in Sockets, wordIndex \in WordIndices : GuessWord(h, s, wordIndex)
    \/ \E h \in Slots, s \in Sockets : EndTurn(h, s)
    \/ \E s \in Sockets : Disconnect(s)
    \/ \E h \in Slots : Apply(h)
    \/ \E h \in Slots : Finish(h)

Spec == Init /\ [][Next]_vars

----------------------------------------------------------------------------
(* The turns of a game in play *)

\* A game of three teams on the small board: in its unshuffled key card 0
\* to 3 are red, 4 to 6 blue, 7 to 9 green, 10 is the assassin and 11 is
\* neutral.
TurnSettings == {[boardSize |-> "small", teamCount |-> 3, wordsPerTeam |-> 3]}
\* select_team: <<team, role>>
TurnSelectChoices == {<<"red", "operative">>, <<"blue", "spymaster">>}
\* give_clue: <<word, count>>
TurnClueChoices == {<<"animal", 2>>, <<"animal", 0>>}
\* guess_word: in the game of CreateSettings 1 is red, 2 blue, 3 the
\* assassin and 4 neutral.
TurnWordIndices == {1, 2, 3, 4, 10, 11}

\* The opening of a game of three teams: the host joins; a third player
\* joins on the connection s2, takes the green spymaster and goes; the
\* second player joins on s2; the two take the red and the blue spymaster,
\* the host starts the game and the second player moves to the red
\* operative.
TurnOpening ==
    <<Event("s1", "join_room", [NoData EXCEPT !.gameCode = RoomCode, !.playerId = PlayerIdOf("s1"),
                                              !.playerName = PlayerNameOf("s1")]),
      Event("s2", "join_room", [NoData EXCEPT !.gameCode = RoomCode, !.playerId = "p3",
                                              !.playerName = "Cid"]),
      Event("s2", "select_team", [NoData EXCEPT !.team = "green", !.role = "spymaster"]),
      Event("s2", "join_room", [NoData EXCEPT !.gameCode = RoomCode, !.playerId = PlayerIdOf("s2"),
                                              !.playerName = PlayerNameOf("s2")]),
      Event("s1", "select_team", [NoData EXCEPT !.team = "red", !.role = "spymaster"]),
      Event("s2", "select_team", [NoData EXCEPT !.team = "blue", !.role = "spymaster"]),
      Event("s1", "start_game", NoData),
      Event("s2", "select_team", [NoData EXCEPT !.team = "red", !.role = "operative"])>>

\* The first turn: the red spymaster gives a clue for two words and the red
\* operative guesses two red words.
TurnPlay ==
    <<Event("s1", "give_clue", [NoData EXCEPT !.word = "animal", !.count = 2]),
      Event("s2", "guess_word", [NoData EXCEPT !.wordIndex = 0]),
      Event("s2", "guess_word", [NoData EXCEPT !.wordIndex = 1])>>

\* The first guess of the game of two teams after Opening: the red
\* operative guesses a red word.
FirstGuess ==
    <<Event("s1", "guess_word", [NoData EXCEPT !.wordIndex = 0])>>

\* A behaviour starts in a game in play: the game of three teams after
\* TurnOpening and the first n events of TurnPlay, or the game of two teams
\* after Opening and FirstGuess.
InitTurn ==
    /\ \E seed \in ShuffleSeeds :
          \/ \E settings \in TurnSettings, n \in 0..Len(TurnPlay) :
                LET opened == HandledAll(Created(settings, seed), TurnOpening,
                                         Len(TurnOpening))
                    sv == HandledAll(opened, TurnPlay, n)
                IN /\ store = sv.store
                   /\ socketPlayers = sv.socketPlayers
                   /\ roomSockets = sv.roomSockets
          \/ \E settings \in CreateSettings :
                LET opened == HandledAll(Created(settings, seed), Opening, Len(Opening))
                    sv == HandledAll(opened, FirstGuess, Len(FirstGuess))
                IN /\ store = sv.store
                   /\ socketPlayers = sv.socketPlayers
                   /\ roomSockets = sv.roomSockets
    /\ handlers = [h \in Slots |-> Idle]
    /\ emitted = <<>>
    /\ outcome = NoOutcome
    /\ changes = 0

\* The events of a game in play and the steps of the handlers in flight.
NextTurn ==
    \/ \E h \in Slots, s \in Sockets : LeaveRoom(h, s)
    \/ \E h \in Slots, s \in Sockets, choice \in TurnSelectChoices :
            SelectTeam(h, s, choice[1], choice[2])
    \/ \E h \in Slots, s \in Sockets, clue \in TurnClueChoices :
            GiveClue(h, s, clue[1], clue[2])
    \/ \E h \in Slots, s \in Sockets, wordIndex \in TurnWordIndices :
            GuessWord(h, s, wordIndex)
    \/ \E h \in Slots, s \in Sockets : EndTurn(h, s)
    \/ \E h \in Slots : Apply(h)
    \/ \E h \in Slots : Finish(h)

SpecTurn == InitTurn /\ [][NextTurn]_vars

\* The game in play over a store whose calls may fail.
NextFail ==
    \/ \E h \in Slots, s \in Sockets : LeaveRoom(h, s)
    \/ \E h \in Slots, s \in Sockets, choice \in TurnSelectChoices :
            SelectTeam(h, s, choice[1], choice[2])
    \/ \E h \in Slots, s \in Sockets, clue \in TurnClueChoices :
            GiveClue(h, s, clue[1], clue[2])
    \/ \E h \in Slots, s \in Sockets, wordIndex \in TurnWordIndices :
            GuessWord(h, s, wordIndex)
    \/ \E h \in Slots, s \in Sockets : EndTurn(h, s)
    \/ \E h \in Slots, s \in Sockets, ev \in EventNames : GetGameFails(h, s, ev)
    \/ \E h \in Slots : SaveGameFails(h)
    \/ \E h \in Slots : Apply(h)
    \/ \E h \in Slots : Finish(h)

SpecFail == InitTurn /\ [][NextFail]_vars

----------------------------------------------------------------------------
(* POST /api/games *)

\* The tries of the loop that looks for an unused room code.
MaxAttempts == 10

\* The uuid of the request served in slot h.
HostUuidOf(h) == IF h = "h1" THEN "host-uuid-1" ELSE "host-uuid-2"

\* redis.exists(key) === 1
gameExists(st, code) == st[getGameKey(code)] # <<>>

\* The requests in flight.
Posting == {h \in Slots : handlers[h].ev = "POST"}

\* A request arrives with `settings` in its body: createGame builds the game
\* under the room code `code` that generateRoomCode drew and with the key
\* card shuffled along the random stream `seed`.  The request then waits for
\* gameExists.
PostCreate(h, settings, code, seed) ==
    /\ FreeSlot(h)
    /\ changes + Cardinality(Posting) < MaxChanges
    /\ handlers' = [handlers EXCEPT ![h] =
                        [pc |-> "created", socket |-> "none", ev |-> "POST",
                         data |-> [NoData EXCEPT !.settings = settings],
                         playerId |-> HostUuidOf(h), code |-> code,
                         game |-> <<createGame(HostUuidOf(h), code, settings, seed)>>,
                         attempts |-> 0, seed |-> seed]]
    /\ emitted' = <<>>
    /\ outcome' = [step |-> "post", socket |-> "none", ev |-> "POST", result |-> "pending"]
    /\ UNCHANGED <<store, socketPlayers, roomSockets, changes>>

\* gameExists has answered for the code of the request's game: while the
\* code is taken and fewer than MaxAttempts games were created again, the
\* game is created again under the next code drawn; otherwise the loop ends,
\* with the 500 response when attempts has reached MaxAttempts and with the
\* call of saveGame when not.
PostExists(h, code) ==
    LET hd == handlers[h]
    IN /\ hd.ev = "POST"
       /\ hd.pc = "created"
       /\ IF gameExists(store, hd.game[1].code) /\ hd.attempts < MaxAttempts
          THEN /\ handlers' = [handlers EXCEPT
                                ![h].game = <<createGame(hd.playerId, code, hd.data.settings, hd.seed)>>,
                                ![h].code = code,
                                ![h].attempts = hd.attempts + 1]
               /\ outcome' = [step |-> "exists", socket |-> "none", ev |-> "POST",
                              result |-> "pending"]
               /\ UNCHANGED changes
          ELSE IF hd.attempts >= MaxAttempts
          THEN /\ code = hd.code
               /\ handlers' = [handlers EXCEPT ![h] = Idle]
               /\ outcome' = [step |-> "exists", socket |-> "none", ev |-> "POST",
                              result |-> "failed"]
               /\ changes' = changes + 1
          ELSE /\ code = hd.code
               /\ handlers' = [handlers EXCEPT ![h].pc = "unique"]
               /\ outcome' = [step |-> "exists", socket |-> "none", ev |-> "POST",
                              result |-> "pending"]
               /\ UNCHANGED changes
       /\ emitted' = <<>>
       /\ UNCHANGED <<store, socketPlayers, roomSockets>>

\* saveGame(game) of the request, and its response.
PostSave(h) ==
    LET hd == handlers[h]
    IN /\ hd.ev = "POST"
       /\ hd.pc = "unique"
       /\ store' = saveGame(store, hd.game[1])
       /\ handlers' = [handlers EXCEPT ![h] = Idle]
       /\ emitted' = <<>>
       /\ outcome' = [step |-> "save", socket |-> "none", ev |-> "POST",
                      result |-> "created"]
       /\ changes' = changes + 1
       /\ UNCHANGED <<socketPlayers, roomSockets>>

\* The server with no room and no connection.
InitEmpty ==
    /\ store = [key \in Keys |-> <<>>]
    /\ socketPlayers = [s \in Sockets |-> <<>>]
    /\ roomSockets = [code \in Codes |-> {}]
    /\ handlers = [h \in Slots |-> Idle]
    /\ emitted = <<>>
    /\ outcome = NoOutcome
    /\ changes = 0

\* The settings of the requests that create boards: every team count with
\* few and with many words per team on the small and the standard board, and
\* the request bodies that leave the other settings to the defaults.
BoardSettings ==
    {[boardSize |-> b, teamCount |-> t, wordsPerTeam |-> w, assassinCount |-> a] :
        b \in {"small", "standard"}, t \in {2, 3, 4}, w \in {0, 3, 5, 7}, a \in {0, 1}}
    \cup {[teamCount |-> 2], [teamCount |-> 3], [boardSize |-> "large"]}
\* The random stream of the shuffle: stream 0 moves every card.
BoardSeeds == {0}

\* Boards are created for one room code, from any settings.
NextBoard ==
    \/ \E h \in Slots, settings \in BoardSettings, seed \in BoardSeeds :
            PostCreate(h, settings, RoomCode, seed)
    \/ \E h \in Slots : PostExists(h, RoomCode)
    \/ \E h \in Slots : PostSave(h)

SpecBoard == InitEmpty /\ [][NextBoard]_vars

----------------------------------------------------------------------------
(* regenerateBoard *)

\* regenerateBoard is applied to the session of the room and the session it
\* returns is saved in its place.
RegenerateBoard(seed) ==
    /\ ChangesLeft
    /\ store[getGameKey(RoomCode)] # <<>>
    /\ store' = saveGame(store, regenerateBoard(getGame(store, RoomCode)[1], seed))
    /\ emitted' = <<>>
    /\ outcome' = [step |-> "regenerateBoard", socket |-> "none", ev |-> "none",
                   result |-> "done"]
    /\ changes' = changes + 1
    /\ UNCHANGED <<socketPlayers, roomSockets, handlers>>

\* The game in play, with the board regenerated at any moment.
NextReset ==
    \/ \E h \in Slots, s \in Sockets : LeaveRoom(h, s)
    \/ \E h \in Slots, s \in Sockets, choice \in TurnSelectChoices :
            SelectTeam(h, s, choice[1], choice[2])
    \/ \E h \in Slots, s \in Sockets, clue \in TurnClueChoices :
            GiveClue(h, s, clue[1], clue[2])
    \/ \E h \in Slots, s \in Sockets, wordIndex \in TurnWordIndices :
            GuessWord(h, s, wordIndex)
    \/ \E h \in Slots, s \in Sockets : EndTurn(h, s)
    \/ \E seed \in ShuffleSeeds : RegenerateBoard(seed)
    \/ \E h \in Slots : Apply(h)
    \/ \E h \in Slots : Finish(h)

SpecReset == InitTurn /\ [][NextReset]_vars

----------------------------------------------------------------------------
(* The turns of a game with an eliminated team *)

\* In the game of three teams the red operative reveals the assassin, then
\* joins blue and ends blue's turn, then joins green: green is on turn, red
\* is eliminated and comes next in the rotation.
TurnSkip ==
    <<Event("s1", "give_clue", [NoData EXCEPT !.word = "animal", !.count = 2]),
      Event("s2", "guess_word", [NoData EXCEPT !.wordIndex = 10]),
      Event("s2", "select_team", [NoData EXCEPT !.team = "blue", !.role = "operative"]),
      Event("s2", "end_turn", NoData),
      Event("s2", "select_team", [NoData EXCEPT !.team = "green", !.role = "operative"])>>

\* In the game of three teams the red operative reveals three of the four
\* red words and then the assassin; the red spymaster becomes the spymaster
\* of blue and gives a clue, and the red operative joins blue: blue is on
\* turn, red is eliminated and one red word is left.
TurnLast ==
    <<Event("s1", "give_clue", [NoData EXCEPT !.word = "animal", !.count = 3]),
      Event("s2", "guess_word", [NoData EXCEPT !.wordIndex = 0]),
      Event("s2", "guess_word", [NoData EXCEPT !.wordIndex = 1]),
      Event("s2", "guess_word", [NoData EXCEPT !.wordIndex = 2]),
      Event("s2", "guess_word", [NoData EXCEPT !.wordIndex = 10]),
      Event("s1", "select_team", [NoData EXCEPT !.team = "blue", !.role = "spymaster"]),
      Event("s1", "give_clue", [NoData EXCEPT !.word = "animal", !.count = 2]),
      Event("s2", "select_team", [NoData EXCEPT !.team = "blue", !.role = "operative"])>>

\* A behaviour starts in a game in play, as in InitTurn, or in the game of
\* three teams after TurnOpening and TurnSkip or TurnLast.
InitEnd ==
    \/ InitTurn
    \/ /\ \E seed \in ShuffleSeeds, settings \in TurnSettings, script \in {TurnSkip, TurnLast} :
            LET opened == HandledAll(Created(settings, seed), TurnOpening,
                                     Len(TurnOpening))
                sv == HandledAll(opened, script, Len(script))
            IN /\ store = sv.store
               /\ socketPlayers = sv.socketPlayers
               /\ roomSockets = sv.roomSockets
       /\ handlers = [h \in Slots |-> Idle]
       /\ emitted = <<>>
       /\ outcome = NoOutcome
       /\ changes = 0

SpecEnd == InitEnd /\ [][NextTurn]_vars

----------------------------------------------------------------------------
(* Taking a seat *)

\* select_team: the seats a client may ask for, the spymaster of no team and
\* of a team that does not play in the game of two teams included.
SeatChoices ==
    {<<"red", "spymaster">>, <<"null", "spymaster">>, <<"yellow", "spymaster">>,
     <<"blue", "operative">>}

\* A behaviour starts when both players have joined the room and any
\* further events of Opening have been handled.
InitSeat ==
    /\ \E settings \in CreateSettings, seed \in ShuffleSeeds, n \in 2..Len(Opening) :
          LET sv == HandledAll(Created(settings, seed), Opening, n)
          IN /\ store = sv.store
             /\ socketPlayers = sv.socketPlayers
             /\ roomSockets = sv.roomSockets
    /\ handlers = [h \in Slots |-> Idle]
    /\ emitted = <<>>
    /\ outcome = NoOutcome
    /\ changes = 0

NextSeat ==
    \/ \E h \in Slots, s \in Sockets, choice \in SeatChoices :
            SelectTeam(h, s, choice[1], choice[2])
    \/ \E h \in Slots : Apply(h)
    \/ \E h \in Slots : Finish(h)

SpecSeat == InitSeat /\ [][NextSeat]_vars

----------------------------------------------------------------------------
(* Concurrent creations *)

\* The store holds the rooms of `codes`, each created by an earlier request.
StoreWith(codes) ==
    [key \in Keys |->
        IF \E code \in codes : key = getGameKey(code)
        THEN <<Stringify(createGame(HostUuid,
                                    CHOOSE code \in codes : key = getGameKey(code),
                                    [teamCount |-> 2], 1))>>
        ELSE <<>>]

\* A behaviour starts with any of the rooms already in the store.
InitCreate ==
    /\ \E codes \in SUBSET Codes : store = StoreWith(codes)
    /\ socketPlayers = [s \in Sockets |-> <<>>]
    /\ roomSockets = [code \in Codes |-> {}]
    /\ handlers = [h \in Slots |-> Idle]
    /\ emitted = <<>>
    /\ outcome = NoOutcome
    /\ changes = 0

\* Requests with the settings of CreateSettings draw any room code, the
\* first time and every time the game is created again.
NextCreate ==
    \/ \E h \in Slots, settings \in CreateSettings, code \in Codes, seed \in ShuffleSeeds :
            PostCreate(h, settings, code, seed)
    \/ \E h \in Slots, code \in Codes : PostExists(h, code)
    \/ \E h \in Slots : PostSave(h)

SpecCreate == InitCreate /\ [][NextCreate]_vars

----------------------------------------------------------------------------
(* The persisted session of the room and the handlers working on it *)

Persisted == store[getGameKey(RoomCode)][1]

\* The handlers that have loaded the room's game and not yet saved it.
BetweenLoadAndSave(code) ==
    {h \in Slots : handlers[h].pc = "loaded" /\ handlers[h].code = code}

----------------------------------------------------------------------------
(* Serialization of the handlers of a room *)

\* C1: for any one room, while one handler is between its getGame and its
\* saveGame, no other handler of the room is between its own getGame and
\* saveGame.
C1_SectionsNeverOverlap ==
    \A code \in Codes : Cardinality(BetweenLoadAndSave(code)) <= 1

\* C2: of two guess_word handlers of a room that race on the same unrevealed
\* wordIndex (both are in flight at once, the card is unrevealed when the
\* first of them loads), exactly one is accepted: they never both carry out
\* their saveGame.
C2_RacingGuessAppliedOnce ==
    \A h1, h2 \in Slots :
        (/\ h1 # h2
         /\ handlers[h1].ev = "guess_word" /\ handlers[h2].ev = "guess_word"
         /\ handlers[h1].code = handlers[h2].code
         /\ handlers[h1].data.wordIndex = handlers[h2].data.wordIndex)
        => ~(handlers[h1].pc = "saved" /\ handlers[h2].pc = "saved")

\* C3: revealed is monotonic in the persisted session: no step of any
\* execution, interleaved or not, takes a persisted revealed[i] from true
\* back to false.
C3_RevealedMonotonic ==
    [][\A i \in 1..Len(Persisted.revealed) :
            Persisted.revealed[i] => Persisted'.revealed[i]]_vars

\* C5: once the persisted session is finished with a winner, every later
\* persisted state has the same status and the same winner.
C5_FinishedIsFinal ==
    [][(Persisted.status = "finished" /\ Persisted.winner # "null")
            => (/\ Persisted'.status = Persisted.status
                /\ Persisted'.winner = Persisted.winner)]_vars

----------------------------------------------------------------------------
(* The persisted session *)

\* C4: in every persisted session state, winner is non-null if and only if
\* status is 'finished'.
C4_WinnerIffFinished ==
    \A key \in Keys :
        store[key] # <<>> =>
            ((store[key][1].winner # "null") <=> (store[key][1].status = "finished"))

\* A game has been won and the finished session is in the store.
C4_Witness ==
    /\ Persisted.status = "finished"
    /\ Persisted.winner \in {"red", "blue"}
    /\ outcome.step = "apply" /\ outcome.ev = "guess_word"

Spymasters(game, team) ==
    {i \in 1..Len(game.players) :
        game.players[i].team = team /\ game.players[i].role = "spymaster"}

AtMostOneSpymaster ==
    \A key \in Keys :
        store[key] # <<>> =>
            \A team \in TeamIds : Cardinality(Spymasters(store[key][1], team)) <= 1

\* playerId is in the roster.
HasId(game, playerId) == FindPlayer(game.players, playerId) # 0

\* A player other than playerId holds the spymaster of the team.
SpymasterTaken(game, playerId, team) ==
    \E i \in Spymasters(game, team) : game.players[i].id # playerId

\* A select_team of a player of the session that asks for the spymaster of
\* a team whose spymaster a different player holds is answered with the
\* error and writes nothing.
ConflictingSelectRejected ==
    (outcome'.step = "receive" /\ outcome'.ev = "select_team") =>
        \A h \in Slots, s \in Sockets, team \in {"red", "blue"} :
            (/\ SelectTeam(h, s, team, "spymaster")
             /\ outcome'.socket = s
             /\ socketPlayers[s] # <<>>
             /\ HasId(Persisted, socketPlayers[s][1].playerId)
             /\ SpymasterTaken(Persisted, socketPlayers[s][1].playerId, team))
            => (/\ emitted' = <<ErrorMsg(s, "Spymaster role is already taken for "
                                                \o team \o " team")>>
                /\ outcome'.result = "rejected"
                /\ store' = store)

\* C7: in every persisted session state each team has at most one player
\* with role 'spymaster', and a select_team asking for the spymaster of a
\* team where a different player holds it is rejected with an error and
\* leaves the roster unchanged.
C7_OneSpymasterPerTeam ==
    []AtMostOneSpymaster /\ [][ConflictingSelectRejected]_vars

\* The second player has asked for the spymaster the first one holds and
\* has been answered with the error.
C7_Witness ==
    /\ outcome = [step |-> "receive", socket |-> "s2", ev |-> "select_team",
                  result |-> "rejected"]
    /\ emitted = <<ErrorMsg("s2", "Spymaster role is already taken for red team")>>
    /\ Cardinality(Spymasters(Persisted, "red")) = 1

----------------------------------------------------------------------------
(* Views *)

CardTypes == TeamIds \cup {"neutral", "assassin"}

\* The role of the player in the session a view is taken of ("null" for a
\* player the roster does not hold).
RoleIn(game, playerId) ==
    LET idx == FindPlayer(game.players, playerId)
    IN IF idx = 0 THEN "null" ELSE game.players[idx].role

\* The sessions that differ from game in the key-card value of one
\* unrevealed card.  Any two key cards that agree on the revealed cards are
\* joined by a chain of such changes.
UnrevealedVariants(game) ==
    {[game EXCEPT !.keyCard[i] = c] :
        i \in {j \in 1..Len(game.keyCard) : ~game.revealed[j]}, c \in CardTypes}

HidesKeyCard(m) ==
    /\ "keyCard" \notin DOMAIN m.body
    /\ \A i \in 1..Len(m.game.keyCard) :
            m.body.revealedCards[i] =
                IF m.game.revealed[i] THEN m.game.keyCard[i] ELSE "null"
    /\ \A other \in UnrevealedVariants(m.game) :
            getStateForPlayer(other, m.playerId) = m.body

\* C6: every game_state view delivered to a player whose role in the
\* session is not 'spymaster' has no keyCard field, its revealedCards[i] is
\* keyCard[i] where revealed[i] is true and null elsewhere, and the view is
\* the same for every session that differs only in the key-card values of
\* unrevealed cards.
C6_NonSpymasterViewHidesKeyCard ==
    \A k \in 1..Len(emitted) :
        (emitted[k].ev = "game_state"
            /\ RoleIn(emitted[k].game, emitted[k].playerId) # "spymaster")
        => HidesKeyCard(emitted[k])

\* An operative has been sent the view of a board with one card revealed
\* and the others not.
C6_Witness ==
    \E k \in 1..Len(emitted) :
        /\ emitted[k].ev = "game_state"
        /\ RoleIn(emitted[k].game, emitted[k].playerId) = "operative"
        /\ emitted[k].game.revealed[1]
        /\ ~emitted[k].game.revealed[2]
        /\ emitted[k].body.revealedCards[1] = "red"

----------------------------------------------------------------------------
(* Rejections *)

\* C8: every rejected event (a handler that emits an error or returns
\* without accepting the operation) leaves the persisted session exactly as
\* it was loaded.
C8_RejectionLeavesSessionUnchanged ==
    [][outcome'.result = "rejected" => store' = store]_vars

\* A guess at a card that is already revealed has been answered with the
\* error.
C8_Witness ==
    /\ outcome = [step |-> "receive", socket |-> "s1", ev |-> "guess_word",
                  result |-> "rejected"]
    /\ emitted = <<ErrorMsg("s1", "This card has already been revealed")>>
    /\ \E i \in 1..Len(Persisted.revealed) : Persisted.revealed[i]

\* C9, the case the claim singles out: a give_clue, guess_word or end_turn
\* of a joined connection that is turned down while the status of its
\* session is not 'playing' is answered with an error message to that
\* connection.
C9_NotPlayingAnsweredWithError ==
    (/\ outcome.step = "receive" /\ outcome.result = "rejected"
     /\ outcome.ev \in {"give_clue", "guess_word", "end_turn"}
     /\ socketPlayers[outcome.socket] # <<>>
     /\ Persisted.status # "playing")
    => (/\ Len(emitted) = 1
        /\ emitted[1].ev = "error"
        /\ emitted[1].to = outcome.socket)

----------------------------------------------------------------------------
(* Starting the game *)

\* C10: start_game moves the session from 'lobby' to 'playing' only if
\* every active team has at least one spymaster and at least one operative:
\* a start_game handler that has saved the session as 'playing' worked on a
\* roster with both for every team.
C10_StartNeedsSpymasterAndOperative ==
    \A h \in Slots :
        (/\ handlers[h].pc = "saved"
         /\ handlers[h].ev = "start_game"
         /\ handlers[h].game[1].status = "playing")
        => \A i \in 1..Len(handlers[h].game[1].teams) :
              /\ HasPlayer(handlers[h].game[1], handlers[h].game[1].teams[i], "spymaster")
              /\ HasPlayer(handlers[h].game[1], handlers[h].game[1].teams[i], "operative")


----------------------------------------------------------------------------
(* Steps in which a handler saves *)

\* The step is the Apply of an accepted event `ev` of handler h: before
\* the step handlers[h].game is the game object the handler loaded, after
\* it the game object it saved.
AcceptedApply(h, ev) ==
    /\ handlers[h].pc = "loaded"
    /\ handlers[h].ev = ev
    /\ handlers'[h].pc = "saved"
    /\ outcome'.result = "accepted"

IsHost(game, playerId) ==
    /\ HasId(game, playerId)
    /\ game.players[FindPlayer(game.players, playerId)].isHost

\* C11: update_settings and start_game take effect only when the session
\* the handler loaded has status 'lobby' and the caller is its host;
\* consequently the persisted settings never change in a step taken while
\* the persisted status is 'playing' or 'finished'.
C11_SettingsFixedOnceStarted ==
    [][/\ \A h \in Slots :
            AcceptedApply(h, "update_settings") \/ AcceptedApply(h, "start_game")
            => /\ handlers[h].game[1].status = "lobby"
               /\ IsHost(handlers[h].game[1], handlers[h].playerId)
       /\ Persisted.status \in {"playing", "finished"}
            => Persisted'.settings = Persisted.settings]_vars

\* C12: give_clue is accepted only when, in the session the handler loaded,
\* status is 'playing', the caller is the spymaster of the team on turn and
\* currentClue is null; hence at most one clue is accepted between two turn
\* advances: no clue is accepted while the persisted session holds one.
C12_OneCluePerTurn ==
    [][\A h \in Slots :
            AcceptedApply(h, "give_clue")
            => /\ canGiveClue(handlers[h].game[1], handlers[h].playerId)
               /\ Persisted.currentClue = <<>>]_vars

\* The game object give_clue saves for a clue of count c > 0.
ClueGiven(game, word, c) ==
    [game EXCEPT !.currentClue = <<[word |-> TrimUpper(word), count |-> c]>>,
                 !.guessesRemaining = JNum(c + 1),
                 !.guessesThisTurn = JNum(0)]

\* The persisted session is in the turn and under the clue that `game`, a
\* game object loaded earlier, shows.
SameTurn(game) ==
    /\ Persisted.currentTeamIndex = game.currentTeamIndex
    /\ Persisted.currentClue = game.currentClue

\* C13: an accepted give_clue with count c > 0 sets currentClue to
\* {word, c}, guessesRemaining to c + 1 and guessesThisTurn to 0 and changes
\* nothing else in the session; so at most c + 1 guesses are accepted in
\* that turn: no guess is accepted once the persisted session counts c + 1
\* guesses under the clue.
C13_ClueBoundsGuesses ==
    [][\A h \in Slots :
        /\ AcceptedApply(h, "give_clue") /\ handlers[h].data.count > 0
            => handlers'[h].game[1] =
                    ClueGiven(handlers[h].game[1], handlers[h].data.word,
                              handlers[h].data.count)
        /\ (/\ AcceptedApply(h, "guess_word")
            /\ handlers[h].game[1].currentClue # <<>>
            /\ handlers[h].game[1].currentClue[1].count > 0
            /\ SameTurn(handlers[h].game[1]))
            => Persisted.guessesThisTurn.v < Persisted.currentClue[1].count + 1]_vars

\* The type of the card that the guess of handler h reveals.
GuessedCard(h) == handlers[h].game[1].keyCard[handlers[h].data.wordIndex + 1]

\* C14: after an accepted give_clue with count 0 the guesses are unbounded:
\* every accepted guess of handler h that loaded the session under the clue
\* of count 0, reveals a card of the team on turn and does not win the game
\* leaves the same team on turn with the clue still active.
C14_UnlimitedClueStaysActive ==
    [][\A h \in Slots :
        (/\ AcceptedApply(h, "guess_word")
         /\ handlers[h].game[1].currentClue # <<>>
         /\ handlers[h].game[1].currentClue[1].count = 0
         /\ GuessedCard(h) = getCurrentTeam(handlers[h].game[1])
         /\ handlers'[h].game[1].status = "playing")
        => /\ handlers'[h].game[1].currentTeamIndex = handlers[h].game[1].currentTeamIndex
           /\ handlers'[h].game[1].currentClue = handlers[h].game[1].currentClue]_vars

\* wordIndex is within bounds and its card not yet revealed.
ValidUnrevealed(game, wordIndex) ==
    /\ wordIndex >= 0
    /\ wordIndex < Len(game.words)
    /\ ~game.revealed[wordIndex + 1]

\* C15: guess_word is accepted only when, in the session the handler
\* loaded, canGuess holds for the caller (status 'playing', operative of
\* the team on turn, a clue, guessesRemaining greater than 0) and wordIndex
\* is within bounds and not yet revealed.
C15_GuessAcceptedOnlyIfCanGuess ==
    [][\A h \in Slots :
        AcceptedApply(h, "guess_word")
        => /\ canGuess(handlers[h].game[1], handlers[h].playerId)
           /\ ValidUnrevealed(handlers[h].game[1], handlers[h].data.wordIndex)]_vars

\* Handler h has just saved an accepted event `ev`.
JustAccepted(h, ev) ==
    /\ handlers[h].pc = "saved"
    /\ handlers[h].ev = ev
    /\ outcome = [step |-> "apply", socket |-> handlers[h].socket, ev |-> ev,
                  result |-> "accepted"]

\* C16: an accepted guess_word on a previously unrevealed index changes
\* exactly one entry of revealed, that index, from false to true, and
\* leaves keyCard, words, settings, teams and the player roster unchanged.
C16_GuessRevealsOneCard ==
    [][\A h \in Slots :
        (AcceptedApply(h, "guess_word")
            /\ ~handlers[h].game[1].revealed[handlers[h].data.wordIndex + 1])
        => /\ handlers'[h].game[1].revealed =
                [handlers[h].game[1].revealed EXCEPT ![handlers[h].data.wordIndex + 1] = TRUE]
           /\ handlers'[h].game[1].keyCard = handlers[h].game[1].keyCard
           /\ handlers'[h].game[1].words = handlers[h].game[1].words
           /\ handlers'[h].game[1].settings = handlers[h].game[1].settings
           /\ handlers'[h].game[1].teams = handlers[h].game[1].teams
           /\ handlers'[h].game[1].players = handlers[h].game[1].players
           /\ Persisted' = Stringify(handlers'[h].game[1])]_vars

\* An accepted guess has just been saved with its card revealed.
C16_Witness ==
    \E h \in Slots :
        /\ JustAccepted(h, "guess_word")
        /\ handlers[h].game[1].revealed[handlers[h].data.wordIndex + 1]
        /\ Persisted.revealed = handlers[h].game[1].revealed

\* The teams of `game` that are not in eliminatedTeams, as a set.
ActiveTeams(game) ==
    {game.teams[i] : i \in 1..Len(game.teams)} \ {game.eliminatedTeams[i] : i \in 1..Len(game.eliminatedTeams)}

\* The index of the first team after index `from`, going round, that is not
\* eliminated in `game`.
NextActiveIndex(game, from) ==
    LET n == Len(game.teams)
        At(k) == (from + k) % n
        k == CHOOSE k \in 1..n :
                /\ game.teams[At(k) + 1] \in ActiveTeams(game)
                /\ \A j \in 1..(k - 1) : game.teams[At(j) + 1] \notin ActiveTeams(game)
    IN At(k)

\* C17: an accepted guess that reveals an assassin adds the guessing team to
\* eliminatedTeams; if exactly one non-eliminated team then remains, that
\* team becomes winner and status becomes 'finished', otherwise status stays
\* 'playing' and the turn advances to the next non-eliminated team.
C17_AssassinEliminatesGuessingTeam ==
    [][\A h \in Slots :
        (AcceptedApply(h, "guess_word") /\ GuessedCard(h) = "assassin")
        => LET before == handlers[h].game[1]
               after == handlers'[h].game[1]
           IN /\ after.eliminatedTeams =
                    Append(before.eliminatedTeams, getCurrentTeam(before))
              /\ IF Cardinality(ActiveTeams(after)) = 1
                 THEN /\ after.winner \in ActiveTeams(after)
                      /\ after.status = "finished"
                 ELSE /\ after.status = "playing"
                      /\ after.winner = "null"
                      /\ after.currentClue = <<>>
                      /\ after.currentTeamIndex =
                            NextActiveIndex(after, before.currentTeamIndex)]_vars

\* The red team of the game of three teams has just revealed the assassin:
\* it is eliminated, two teams remain and blue is on turn.
C17_Witness ==
    \E h \in Slots :
        /\ JustAccepted(h, "guess_word")
        /\ handlers[h].game[1].keyCard[handlers[h].data.wordIndex + 1] = "assassin"
        /\ handlers[h].game[1].eliminatedTeams = <<"red">>
        /\ Len(handlers[h].game[1].teams) = 3
        /\ handlers[h].game[1].status = "playing"
        /\ handlers[h].game[1].currentTeamIndex = 1

\* The red team of the game of two teams has just revealed the assassin.
AssassinEndsGame ==
    \E h \in Slots :
        /\ JustAccepted(h, "guess_word")
        /\ handlers[h].game[1].keyCard[handlers[h].data.wordIndex + 1] = "assassin"
        /\ handlers[h].game[1].status = "finished"
        /\ handlers[h].game[1].winner = "blue"

\* C18: an accepted guess that reveals the guessing team's own colour
\* increments that team's found by one; if found then reaches total the
\* team wins and status becomes 'finished'; else if guessesRemaining is at
\* most 0 the turn advances; else the same team stays on turn with
\* currentClue unchanged.
C18_OwnColourGuess ==
    [][\A h \in Slots :
        (AcceptedApply(h, "guess_word") /\ GuessedCard(h) = getCurrentTeam(handlers[h].game[1]))
        => LET before == handlers[h].game[1]
               after == handlers'[h].game[1]
               team == getCurrentTeam(before)
               left == JDec(before.guessesRemaining)
           IN /\ after.scores = [before.scores EXCEPT ![team].found = @ + 1]
              /\ IF after.scores[team].found >= after.scores[team].total
                 THEN /\ after.winner = team
                      /\ after.status = "finished"
                 ELSE IF left.t = "number" /\ left.v <= 0
                 THEN /\ after.status = "playing"
                      /\ after.currentClue = <<>>
                      /\ after.currentTeamIndex =
                            NextActiveIndex(after, before.currentTeamIndex)
                 ELSE /\ after.status = "playing"
                      /\ after.currentTeamIndex = before.currentTeamIndex
                      /\ after.currentClue = before.currentClue
                      /\ after.guessesRemaining = left]_vars

\* After a clue of count 2 the second correct guess has just been saved:
\* guessesRemaining went 3, 2, 1, red has found two words and the clue is
\* still active.
C18_Witness ==
    \E h \in Slots :
        /\ JustAccepted(h, "guess_word")
        /\ handlers[h].game[1].currentClue = <<[word |-> "ANIMAL", count |-> 2]>>
        /\ handlers[h].game[1].guessesRemaining = JNum(1)
        /\ handlers[h].game[1].guessesThisTurn = JNum(2)
        /\ handlers[h].game[1].scores["red"].found = 2
        /\ handlers[h].game[1].currentTeamIndex = 0
        /\ handlers[h].game[1].status = "playing"

\* The third correct guess under the clue of count 2 has just been saved:
\* no guess is left and the turn has advanced to blue.
LastGuessEndsTurn ==
    \E h \in Slots :
        /\ JustAccepted(h, "guess_word")
        /\ handlers[h].game[1].scores["red"].found = 3
        /\ handlers[h].game[1].currentClue = <<>>
        /\ handlers[h].game[1].currentTeamIndex = 1

\* The last red word of the game of two teams has just been guessed.
OwnColourWins ==
    \E h \in Slots :
        /\ JustAccepted(h, "guess_word")
        /\ handlers[h].game[1].winner = "red"
        /\ handlers[h].game[1].scores["red"].found = handlers[h].game[1].scores["red"].total

\* C19: an accepted guess that reveals a neutral card always advances the
\* turn, whatever guessesRemaining is: afterwards currentClue is null,
\* guessesRemaining and guessesThisTurn are 0, no score has changed and
\* status is still 'playing'.
C19_NeutralEndsTurn ==
    [][\A h \in Slots :
        (AcceptedApply(h, "guess_word") /\ GuessedCard(h) = "neutral")
        => LET before == handlers[h].game[1]
               after == handlers'[h].game[1]
           IN /\ after.currentTeamIndex = NextActiveIndex(after, before.currentTeamIndex)
              /\ after.currentClue = <<>>
              /\ after.guessesRemaining = JNum(0)
              /\ after.guessesThisTurn = JNum(0)
              /\ after.scores = before.scores
              /\ after.status = "playing"]_vars

\* The first guess under the clue of count 2, with three guesses left, has
\* just revealed a neutral card: the turn has passed from red to blue.
C19_Witness ==
    \E h \in Slots :
        /\ JustAccepted(h, "guess_word")
        /\ handlers[h].game[1].keyCard[handlers[h].data.wordIndex + 1] = "neutral"
        /\ Cardinality({i \in DOMAIN handlers[h].game[1].revealed :
                            handlers[h].game[1].revealed[i]}) = 1
        /\ Len(handlers[h].game[1].teams) = 3
        /\ handlers[h].game[1].currentClue = <<>>
        /\ handlers[h].game[1].currentTeamIndex = 1

\* C20: an accepted guess that reveals another active team's colour
\* increments that other team's found by one and not the guessing team's;
\* if that found reaches its total, that other team becomes winner and
\* status becomes 'finished'; in every case the guessing team's turn ends
\* (currentClue cleared).
C20_OtherColourGuess ==
    [][\A h \in Slots :
        (/\ AcceptedApply(h, "guess_word")
         /\ GuessedCard(h) \in ActiveTeams(handlers[h].game[1])
         /\ GuessedCard(h) # getCurrentTeam(handlers[h].game[1]))
        => LET before == handlers[h].game[1]
               after == handlers'[h].game[1]
               otherTeam == GuessedCard(h)
           IN /\ after.scores = [before.scores EXCEPT ![otherTeam].found = @ + 1]
              /\ IF after.scores[otherTeam].found >= after.scores[otherTeam].total
                 THEN /\ after.winner = otherTeam
                      /\ after.status = "finished"
                 ELSE /\ after.winner = "null"
                      /\ after.status = "playing"
              /\ after.currentClue = <<>>]_vars

\* The red operative of the game of three teams has just revealed a blue
\* word: blue has found one word of three, the game goes on and red's turn
\* has ended.
C20_Witness ==
    \E h \in Slots :
        /\ JustAccepted(h, "guess_word")
        /\ handlers[h].game[1].keyCard[handlers[h].data.wordIndex + 1] = "blue"
        /\ handlers[h].game[1].scores["blue"].found = 1
        /\ handlers[h].game[1].scores["blue"].total = 3
        /\ handlers[h].game[1].status = "playing"
        /\ handlers[h].game[1].currentClue = <<>>
        /\ handlers[h].game[1].currentTeamIndex = 1

\* The red operative of the game of two teams has just revealed the only
\* blue word: blue wins.
OtherColourWins ==
    \E h \in Slots :
        /\ JustAccepted(h, "guess_word")
        /\ handlers[h].game[1].keyCard[handlers[h].data.wordIndex + 1] = "blue"
        /\ handlers[h].game[1].winner = "blue"
        /\ handlers[h].game[1].status = "finished"
        /\ handlers[h].game[1].currentClue = <<>>

----------------------------------------------------------------------------
(* The persisted session over time *)

Eliminated(game) == {game.eliminatedTeams[i] : i \in 1..Len(game.eliminatedTeams)}

\* C21: in every reachable state with status 'playing' and at least two
\* non-eliminated teams the team on turn is not eliminated; and once a team
\* is eliminated in the persisted session, no later persisted session that
\* is still 'playing' has that team on turn.
C21_EliminatedTeamNeverOnTurn ==
    /\ [](Persisted.status = "playing" /\ Cardinality(ActiveTeams(Persisted)) >= 2
            => getCurrentTeam(Persisted) \notin Eliminated(Persisted))
    /\ [][\A team \in Eliminated(Persisted) :
            Persisted'.status = "playing" => getCurrentTeam(Persisted') # team]_vars

\* C22: in every reachable persisted session currentClue being non-null
\* implies status 'playing'; a guess that ends the game leaves no clue set
\* in the finished session.
C22_ClueOnlyWhilePlaying ==
    Persisted.currentClue # <<>> => Persisted.status = "playing"

\* C23: in every reachable session state found is at most total for every
\* team, and no accepted operation persists a found value for any team
\* lower than the one in the state it loaded.
C23_FoundBoundedAndGrowing ==
    /\ [](\A t \in DOMAIN Persisted.scores :
            Persisted.scores[t].found <= Persisted.scores[t].total)
    /\ [][\A h \in Slots :
            (handlers[h].pc = "loaded" /\ handlers'[h].pc = "saved")
            => \A t \in DOMAIN handlers[h].game[1].scores :
                    handlers'[h].game[1].scores[t].found
                        >= handlers[h].game[1].scores[t].found]_vars

\* A guess has just been saved that brought a team's found up to its total.
C23_Witness ==
    \E h \in Slots, t \in DOMAIN Persisted.scores :
        /\ JustAccepted(h, "guess_word")
        /\ handlers[h].game[1].keyCard[handlers[h].data.wordIndex + 1] = t
        /\ Persisted.scores[t].found = Persisted.scores[t].total
        /\ Persisted.scores[t].found > 0

----------------------------------------------------------------------------
(* The roster *)

\* The roster after the player has joined under `playerName`: one new
\* player with no team and no role, host only of an empty roster, or the
\* same roster with the name of the player replaced.
Joined(players, playerId, playerName) ==
    IF FindPlayer(players, playerId) = 0
    THEN Append(players, [id |-> playerId, name |-> playerName, team |-> "null",
                          role |-> "null", isHost |-> players = <<>>])
    ELSE [i \in 1..Len(players) |->
            IF players[i].id = playerId
            THEN [id |-> playerId, name |-> playerName, team |-> players[i].team,
                  role |-> players[i].role, isHost |-> players[i].isHost]
            ELSE players[i]]

UniqueIds(players) ==
    \A i, j \in 1..Len(players) : players[i].id = players[j].id => i = j

\* C24: join_room with an identifier not in the roster adds exactly one
\* player with team and role null (isHost true only if the roster was
\* empty); join_room with an identifier already in the roster only updates
\* that player's name; a socket disconnect changes nothing in the session;
\* so player identifiers stay unique.
C24_JoinKeepsRoster ==
    /\ [](Persisted.players # <<>> => UniqueIds(Persisted.players))
    /\ [][/\ \A h \in Slots :
                AcceptedApply(h, "join_room")
                => handlers'[h].game[1] =
                    [handlers[h].game[1] EXCEPT !.players =
                        Joined(@, handlers[h].playerId, handlers[h].data.playerName)]
          /\ outcome'.step = "disconnect" => store' = store]_vars

\* A player that took a role and whose connection was closed has just
\* joined again on a new connection: its role is as it left it.
C24_Witness ==
    \E h \in Slots :
        /\ JustAccepted(h, "join_room")
        /\ socketPlayers[handlers[h].socket] = <<>>
        /\ changes = 2
        /\ handlers[h].game[1].players[FindPlayer(handlers[h].game[1].players,
                                                  handlers[h].playerId)].role = "spymaster"

Hosts(players) == {i \in 1..Len(players) : players[i].isHost}

\* The roster after the player has left: the others in their order, the
\* first of them host if the player that left was.
Left(players, playerId) ==
    LET Stays(p) == p.id # playerId
        rest == SelectSeq(players, Stays)
        wasHost == \E i \in 1..Len(players) : players[i].id = playerId /\ players[i].isHost
    IN [i \in 1..Len(rest) |->
            IF i = 1 /\ wasHost
            THEN [id |-> rest[i].id, name |-> rest[i].name, team |-> rest[i].team,
                  role |-> rest[i].role, isHost |-> TRUE]
            ELSE rest[i]]

\* C25: whenever the roster is non-empty exactly one player has isHost =
\* true: leave_room removes the leaving player and, if that player was host
\* and players remain, gives isHost to the next player in the roster.
C25_ExactlyOneHost ==
    /\ [](Persisted.players # <<>> => Cardinality(Hosts(Persisted.players)) = 1)
    /\ [][\A h \in Slots :
            AcceptedApply(h, "leave_room")
            => handlers'[h].game[1] =
                [handlers[h].game[1] EXCEPT !.players = Left(@, handlers[h].playerId)]]_vars

\* The host has just left and the second player has been made host.
C25_Witness ==
    \E h \in Slots :
        /\ JustAccepted(h, "leave_room")
        /\ handlers[h].playerId = PlayerIdOf("s1")
        /\ Persisted.players # <<>>
        /\ Persisted.players[1].id = PlayerIdOf("s2")
        /\ Persisted.players[1].isHost

\* C26: hostId identifies the participant holding host privileges: whenever
\* the roster is non-empty, hostId equals the id of the player with
\* isHost = true.
C26_HostIdNamesTheHost ==
    Persisted.players # <<>>
    => \A i \in Hosts(Persisted.players) : Persisted.players[i].id = Persisted.hostId

----------------------------------------------------------------------------
(* What the connections are sent *)

\* Message m is a game_state view of `game` sent to socket s and projected
\* for the player of s.
IsViewFor(m, s, game) ==
    /\ m.to = s
    /\ m.ev = "game_state"
    /\ socketPlayers'[s] # <<>>
    /\ m.body = getStateForPlayer(game, socketPlayers'[s][1].playerId)

\* C27: after every accepted state-mutating event has been persisted, every
\* connection currently joined to that room is sent a game_state view of
\* the new session, projected for that connection's player.
C27_EveryChangeIsBroadcast ==
    [][\A h \in Slots :
        (handlers[h].pc = "saved" /\ handlers'[h].pc = "idle")
        => \A s \in roomSockets'[handlers[h].code] :
                \E i \in 1..Len(emitted') :
                    IsViewFor(emitted'[i], s, handlers[h].game[1])]_vars

\* The view as the connection receives it: socket.emit sends the JSON text
\* of the view, in which Infinity and NaN are null.
Received(view) ==
    [view EXCEPT !.guessesRemaining = JsonNumber(@),
                 !.guessesThisTurn = JsonNumber(@)]

\* Handler h takes its Finish step.
Finishing(h) == handlers[h].pc = "saved" /\ handlers'[h].pc = "idle"

\* C28: a connection that joins a room receives a game_state view that
\* reflects the session as persisted at the moment the view is sent.
C28_JoinerSeesPersistedSession ==
    [][\A h \in Slots :
        (Finishing(h) /\ handlers[h].ev = "join_room")
        => \E i \in 1..Len(emitted') :
                /\ emitted'[i].to = handlers[h].socket
                /\ emitted'[i].ev = "game_state"
                /\ Received(emitted'[i].body) =
                        getStateForPlayer(getGame(store, handlers[h].code)[1],
                                          handlers[h].playerId)]_vars

\* C29: each connection observes one consistent timeline of a room: once
\* all handlers have finished, the last game_state views delivered are the
\* projection of the final persisted state.
C29_LastViewIsFinalState ==
    (/\ \A h \in Slots : handlers[h].pc = "idle"
     /\ outcome.step = "finish")
    => \A i \in 1..Len(emitted) :
            emitted[i].ev = "game_state"
            => Received(emitted[i].body) =
                    getStateForPlayer(getGame(store, emitted[i].game.code)[1],
                                      emitted[i].playerId)

----------------------------------------------------------------------------
(* Failures of the store *)

\* C30: when a store call (getGame or saveGame) fails during any handler,
\* leave_room included, the failure is reported as an error to the
\* initiating connection and the persisted session is left unchanged.
C30_StoreFailureReported ==
    [][outcome'.result = "failed"
        => /\ store' = store
           /\ \E i \in 1..Len(emitted') :
                /\ emitted'[i].to = outcome'.socket
                /\ emitted'[i].ev = "error"]_vars
----------------------------------------------------------------------------
(* The boards that POST /api/games creates *)

\* The games of the requests in flight and the games persisted.
CreatedGames ==
    {handlers[h].game[1] : h \in Posting}
        \cup {store[key][1] : key \in {k \in Keys : store[k] # <<>>}}

CountOf(arr, x) == Cardinality({i \in 1..Len(arr) : arr[i] = x})

\* The cards of `team` that the settings ask for: one more for the first
\* team in turn order, none for a team that does not play.
CardsAskedFor(settings, team) ==
    IF team = TEAM_ORDER[1] THEN settings.wordsPerTeam + 1
    ELSE IF \E i \in 2..settings.teamCount : TEAM_ORDER[i] = team THEN settings.wordsPerTeam
    ELSE 0

\* C31: for settings whose neutral remainder is not negative, the key card
\* generated has dimension * dimension entries: wordsPerTeam + 1 of the first
\* team, wordsPerTeam of every other active team, none of an inactive team,
\* assassinCount assassins, and neutral cards for the rest.
C31_KeyCardDistribution ==
    \A game \in CreatedGames :
        getNeutralCount(game.settings) >= 0
        => /\ Len(game.keyCard) =
                BOARD_DIMENSIONS(game.settings.boardSize) * BOARD_DIMENSIONS(game.settings.boardSize)
           /\ \A team \in TeamIds :
                CountOf(game.keyCard, team) = CardsAskedFor(game.settings, team)
           /\ CountOf(game.keyCard, "assassin") = game.settings.assassinCount
           /\ CountOf(game.keyCard, "neutral") = getNeutralCount(game.settings)

\* A request with the default settings (standard board, 2 teams, 8 words, 1
\* assassin) has generated a shuffled key card of 9 red, 8 blue, 1 assassin
\* and 7 neutral cards.
C31_Witness ==
    \E h \in Posting :
        LET game == handlers[h].game[1]
        IN /\ game.settings = getDefaultSettings("standard", 2)
           /\ CountOf(game.keyCard, "red") = 9
           /\ CountOf(game.keyCard, "blue") = 8
           /\ CountOf(game.keyCard, "assassin") = 1
           /\ CountOf(game.keyCard, "neutral") = 7
           /\ game.keyCard[Len(game.keyCard)] = "red"

\* C32: board generation fails, and produces no key card, when the settings
\* would need a negative number of neutral cards; no key card is longer than
\* the board.
C32_OverfullBoardRejected ==
    \A game \in CreatedGames :
        /\ getNeutralCount(game.settings) >= 0
        /\ Len(game.keyCard) <=
                BOARD_DIMENSIONS(game.settings.boardSize) * BOARD_DIMENSIONS(game.settings.boardSize)

\* C33: for every settings value, the scores of a created game have found 0
\* for every team and a total equal to the number of that team's entries in
\* the key card generated for the same settings: wordsPerTeam + 1 for the
\* first team, wordsPerTeam for the other active teams, 0 for the others.
C33_TotalsMirrorKeyCard ==
    \A game \in CreatedGames : \A team \in TeamIds :
        /\ game.scores[team].found = 0
        /\ game.scores[team].total = CountOf(game.keyCard, team)
        /\ game.scores[team].total = CardsAskedFor(game.settings, team)

\* A game of three teams has been created with more cards than its board
\* holds: red has one card more than blue and green, yellow has none.
C33_Witness ==
    \E game \in CreatedGames :
        /\ game.settings.teamCount = 3
        /\ getNeutralCount(game.settings) < 0
        /\ game.scores["red"].total = game.settings.wordsPerTeam + 1
        /\ game.scores["green"].total = game.settings.wordsPerTeam
        /\ game.scores["green"].total > 0
        /\ game.scores["yellow"].total = 0

----------------------------------------------------------------------------
(* Resetting a session *)

\* C34: regenerateBoard applied to a session in any status returns a session
\* in the lobby with no winner, no eliminated team, no card revealed, every
\* found 0, the first team on turn, no clue, guessesRemaining 0 and
\* guessesThisTurn 0 (or absent, where no clue was ever given), and with the
\* code, hostId, settings and players of the session it was applied to.
C34_RegenerateResetsSession ==
    [][outcome'.step = "regenerateBoard"
        => /\ Persisted'.status = "lobby"
           /\ Persisted'.winner = "null"
           /\ Persisted'.eliminatedTeams = <<>>
           /\ \A i \in 1..Len(Persisted'.revealed) : ~Persisted'.revealed[i]
           /\ \A team \in TeamIds : Persisted'.scores[team].found = 0
           /\ Persisted'.currentTeamIndex = 0
           /\ Persisted'.currentClue = <<>>
           /\ Persisted'.guessesRemaining = JNum(0)
           /\ Persisted'.guessesThisTurn \in {JNum(0), JUndefined}
           /\ Persisted'.code = Persisted.code
           /\ Persisted'.hostId = Persisted.hostId
           /\ Persisted'.settings = Persisted.settings
           /\ Persisted'.players = Persisted.players]_vars

----------------------------------------------------------------------------
(* Choosing a team, ending a turn *)

\* C35: select_team is accepted only while the status is 'lobby' or
\* 'playing': a select_team whose handler loaded a finished session is
\* rejected and saves no change of a player's team or role.
C35_NoSelectOnceFinished ==
    [][\A h \in Slots :
        AcceptedApply(h, "select_team")
        => handlers[h].game[1].status \in {"lobby", "playing"}]_vars

\* C36: end_turn is accepted only when the status is 'playing' and the
\* caller's team is the team on turn; when accepted it clears currentClue,
\* sets guessesRemaining and guessesThisTurn to 0 and puts the next
\* non-eliminated team in rotation on turn, leaving revealed, scores,
\* eliminatedTeams, winner and status as they were.
C36_EndTurnPassesTheTurn ==
    [][\A h \in Slots :
        AcceptedApply(h, "end_turn")
        => LET before == handlers[h].game[1]
               after == handlers'[h].game[1]
               idx == FindPlayer(before.players, handlers[h].playerId)
           IN /\ before.status = "playing"
              /\ idx # 0
              /\ before.players[idx].team = before.teams[before.currentTeamIndex + 1]
              /\ after.currentClue = <<>>
              /\ after.guessesRemaining = JNum(0)
              /\ after.guessesThisTurn = JNum(0)
              /\ after.currentTeamIndex = NextActiveIndex(before, before.currentTeamIndex)
              /\ after.revealed = before.revealed
              /\ after.scores = before.scores
              /\ after.eliminatedTeams = before.eliminatedTeams
              /\ after.winner = before.winner
              /\ after.status = before.status
              /\ Persisted' = Stringify(after)]_vars

\* The green operative has just ended green's turn in the game of three
\* teams in which red is eliminated: red is passed over and blue is on turn.
C36_Witness ==
    \E h \in Slots :
        /\ JustAccepted(h, "end_turn")
        /\ handlers[h].game[1].eliminatedTeams = <<"red">>
        /\ handlers[h].game[1].players[FindPlayer(handlers[h].game[1].players,
                                                   handlers[h].playerId)].team = "green"
        /\ handlers[h].game[1].currentTeamIndex = 1
        /\ handlers[h].game[1].currentClue = <<>>
        /\ Persisted = Stringify(handlers[h].game[1])

----------------------------------------------------------------------------
(* The winner *)

\* C37: the winner is never an eliminated team, and after every accepted
\* guess_word the winner is checkWinCondition of the resulting session: a
\* non-eliminated team that has found all its words, else the only team not
\* eliminated, else none.  Revealing the last word of an eliminated team
\* does not make it the winner.
C37_WinnerIsCheckWinCondition ==
    [][\A h \in Slots :
        AcceptedApply(h, "guess_word")
        => LET after == handlers'[h].game[1]
           IN /\ after.winner \notin Eliminated(after)
              /\ after.winner = checkWinCondition(after)]_vars

----------------------------------------------------------------------------
(* Who is sent the key card *)

\* The players that the last step sent a view with the key card.
KeyCardReceivers ==
    {emitted[k].playerId :
        k \in {j \in 1..Len(emitted) :
                    emitted[j].ev = "game_state" /\ "keyCard" \in DOMAIN emitted[j].body}}

\* C38: a view with the key card is sent only to a player who is the
\* spymaster of one of the session's teams, so at most teamCount players of
\* a room are sent one; the role 'spymaster' with no team, or with a team
\* that is not one of the session's, does not give the key card.
C38_KeyCardOnlyForTeamSpymasters ==
    /\ \A k \in 1..Len(emitted) :
        (emitted[k].ev = "game_state" /\ "keyCard" \in DOMAIN emitted[k].body)
        => LET game == emitted[k].game
               idx == FindPlayer(game.players, emitted[k].playerId)
           IN /\ idx # 0
              /\ game.players[idx].role = "spymaster"
              /\ Includes(game.teams, game.players[idx].team)
    /\ \A k \in 1..Len(emitted) :
        emitted[k].ev = "game_state"
        => Cardinality(KeyCardReceivers) <= Len(emitted[k].game.teams)

----------------------------------------------------------------------------
(* The board and the settings *)

\* C39: in every persisted session the board fits the settings: words,
\* keyCard and revealed have dimension(settings.boardSize) squared entries,
\* teams has settings.teamCount entries, and the total of every team is the
\* number of its entries in keyCard; also after update_settings and
\* start_game.
C39_BoardMatchesSettings ==
    LET totalCards ==
            BOARD_DIMENSIONS(Persisted.settings.boardSize)
                * BOARD_DIMENSIONS(Persisted.settings.boardSize)
    IN /\ Len(Persisted.words) = totalCards
       /\ Len(Persisted.keyCard) = totalCards
       /\ Len(Persisted.revealed) = totalCards
       /\ Len(Persisted.teams) = Persisted.settings.teamCount
       /\ \A team \in TeamIds :
            Persisted.scores[team].total = CountOf(Persisted.keyCard, team)

----------------------------------------------------------------------------
(* Room codes *)

\* C40: creating a game never overwrites a persisted session: whatever the
\* store holds and however creations interleave, a creation saves its session
\* under a room code that no session in the store uses, and it reports
\* failure only if none of the codes it tried was unused.
C40_CreationNeverOverwrites ==
    [][\A h \in Slots :
        /\ (handlers[h].ev = "POST" /\ handlers[h].pc = "unique" /\ handlers'[h].pc = "idle")
            => ~gameExists(store, handlers[h].game[1].code)
        /\ (handlers[h].ev = "POST" /\ handlers'[h].pc = "idle" /\ outcome'.result = "failed")
            => gameExists(store, handlers[h].game[1].code)]_vars

============================================================================
